---- MODULE Spec2Model ----
(***************************************************************************)
(* Model of the accuDaq graph compiler (daq_core/compiler) and of the      *)
(* runtime engine (daq_core/engine.py).                                    *)
(*                                                                         *)
(* A project is the pair project.nodes / project.wires of a DAQProject.    *)
(* Node ids are strings in the code; here an id is a natural number that   *)
(* stands for the rank of the string in Python's string order, so that     *)
(* list.sort() on ids is the numeric order.  A Node object is identified   *)
(* by its index in project.nodes (two nodes may carry the same id: the     *)
(* parser does not reject that).  A wire's own id is its index in          *)
(* project.wires.                                                          *)
(*                                                                         *)
(* The engine is modelled with two threads: the thread that calls the API  *)
(* (add_component, connect, start, stop, destroy) and the _main_loop       *)
(* thread, plus the own thread of every started MockDevice / SerialPort    *)
(* and, for a generated program, the network thread of every               *)
(* MQTTSubscriber.  An instance id is a natural number, None is -1.        *)
(* SpecEngine takes stop() as two steps with joins that succeed;           *)
(* SpecShutdown follows stop() and destroy() statement by statement, with  *)
(* joins that may time out.  SpecParse runs the parser and the compiler    *)
(* on documents.  SpecQueries runs the queries of a TopologySort.          *)
(* SpecCodegen runs a TopologySort and a CodeGenerator on a project whose  *)
(* nodes carry a type and a properties bag; the text generate() returns    *)
(* is a sequence of statements, the lines that are the same for every      *)
(* project taken together.  SpecCallers lets two threads call start() and   *)
(* stop() of one engine; SpecReplace calls add_component on ids that are   *)
(* taken, on a stopped and on a running engine; SpecParser hands several   *)
(* inputs to one parser; SpecCounter drives a CounterComponent;            *)
(* SpecScheduler runs the loop of a TaskScheduler.  Not modelled:          *)
(* enable_debug (the debug publication swallows its own errors) and the    *)
(* values of the status and statistics ports of the components other than  *)
(* the counter.                                                            *)
(***************************************************************************)
EXTENDS Integers, Sequences, FiniteSets, TLC

\* ------------------------------------------------------------------ bounds
\* longest project.nodes / project.wires lists explored
MaxNodes == 3
MaxWires == 2
\* the alphabet of node ids that documents draw from (ranks of id strings)
NodeIds == {1, 2, 3}

\* bounds of the validation scenario (few ids, more wires)
MaxValNodes == 1
MaxValWires == 4
ValNodeIds == {1, 2}

\* bounds of the engine: components added, connections registered
MaxComponents == 2
MaxConnections == 2

VARIABLES
    nodes,      \* project.nodes: sequence of node ids, in document order
    wires,      \* project.wires: sequence of [source, target] node ids
    topo,       \* the TopologySort object: _sorted_nodes, _has_cycle, _cycle_nodes
    ret,        \* outcome of the last call made on the compiler front end
    doc,        \* the document handed to the last parse_dict / compile_string
    node_attrs, \* project.nodes: type and properties of each node, by index
    generator,  \* the CodeGenerator object: sorted_nodes, _output_lines
    components,   \* DAQEngine._components: the dict in insertion order
    connections,  \* DAQEngine._connections: the list of Connection objects
    is_running,   \* DAQEngine._is_running
    stop_event,   \* DAQEngine._stop_event
    mainPc,       \* position of the thread that calls the engine's API
    loopPc,       \* position of the _main_loop thread
    loopIdx,      \* index reached by `for component in self._components.values()`
    tickCalls,    \* history: the process() calls the current tick has made
    eret,         \* outcome of the last add_component / connect call
    callbacks,    \* the _message_callback of the subscribers that have one
    handler,      \* position of each subscriber's network thread in _on_message
    active,       \* the process() calls in progress: [thread, id, inputs]
    mainOp,       \* the call the API thread is in: "none" (or stop), "destroy"
    mainIdx,      \* index reached by the for loop of stop() / destroy()
    parser,       \* DAQProjectParser: its _errors and _warnings
    replaced,     \* the component instances whose key of _components was reassigned
    callers,      \* position of each thread that calls start() / stop()
    loops,        \* the _main_loop threads that are alive, with their position
    loop_handle,  \* DAQEngine._main_loop_thread: the thread start() created last
    counter,      \* a CounterComponent
    scheduler     \* a TaskScheduler

cvars == <<nodes, wires, topo, ret, doc, node_attrs, generator>>

evars == <<components, connections, is_running, stop_event, mainPc, loopPc,
           loopIdx, tickCalls, eret>>

gvars == <<callbacks, handler, active, mainOp, mainIdx>>

ovars == <<parser, replaced, callers, loops, loop_handle, counter, scheduler>>

vars == <<nodes, wires, topo, ret, doc, node_attrs, generator,
          components, connections, is_running,
          stop_event, mainPc, loopPc, loopIdx, tickCalls, eret,
          callbacks, handler, active, mainOp, mainIdx,
          parser, replaced, callers, loops, loop_handle, counter, scheduler>>

\* ------------------------------------------------------------- sequences
SeqsUpTo(S, n) == UNION {[1..k -> S] : k \in 0..n}

Range(s) == {s[i] : i \in DOMAIN s}

InSeq(x, s) == \E i \in DOMAIN s : s[i] = x

\* a list comprehension [x for x in s if x in keep]
RECURSIVE SelectIn(_, _)
SelectIn(s, keep) ==
    IF s = <<>> THEN <<>>
    ELSE IF Head(s) \in keep THEN <<Head(s)>> \o SelectIn(Tail(s), keep)
         ELSE SelectIn(Tail(s), keep)

\* ------------------------------------------------------------ graph model
Wire(s, t) == [source |-> s, target |-> t]

\* DAQProject.get_node: the first node carrying the id, None (0) when absent
get_node(ns, id) ==
    IF InSeq(id, ns) THEN CHOOSE i \in DOMAIN ns :
                              ns[i] = id /\ \A j \in DOMAIN ns : ns[j] = id => i <= j
    ELSE 0

\* keys of the dict {node.id: 0 for node in nodes}, in insertion order
RECURSIVE DictKeys(_)
DictKeys(ns) ==
    IF ns = <<>> THEN <<>>
    ELSE LET front == DictKeys(SubSeq(ns, 1, Len(ns) - 1))
             last  == ns[Len(ns)]
         IN IF InSeq(last, front) THEN front ELSE Append(front, last)

\* ------------------------------------------------------- TopologySort.sort
\* the loop over wires that fills graph (a defaultdict) and in_degree (a
\* dict over the node ids): in_degree[target_id] += 1 raises KeyError for a
\* target that is no node
\* an edge test that never finds the edge: every wire counts
EdgePresentNever(graph, source_id, target_id) == FALSE

\* `target_id in graph[source_id]`: the pair of nodes is joined already
EdgePresent(graph, source_id, target_id) == InSeq(target_id, graph[source_id])

RECURSIVE BuildGraph(_, _, _)
BuildGraph(ws, graph, in_degree) ==
    IF ws = <<>> THEN [raised |-> FALSE, graph |-> graph, in_degree |-> in_degree]
    ELSE LET source_id == Head(ws).source
             target_id == Head(ws).target
         IN IF EdgePresent(graph, source_id, target_id)
            THEN BuildGraph(Tail(ws), graph, in_degree)
            ELSE IF target_id \notin DOMAIN in_degree
                 THEN [raised |-> TRUE, graph |-> graph, in_degree |-> in_degree]
                 ELSE BuildGraph(Tail(ws),
                                 [graph EXCEPT ![source_id] = Append(@, target_id)],
                                 [in_degree EXCEPT ![target_id] = @ + 1])

\* queue.sort() left out: the ready list stays in arrival order
QueueSortNone(queue) == queue

\* queue.sort(): ascending order of the ids
QueueSort(queue) == SortSeq(queue, LAMBDA a, b : a < b)

\* the for-loop over graph[current]: decrement, and admit at in-degree 0
RECURSIVE Relax(_, _, _)
Relax(succs, queue, in_degree) ==
    IF succs = <<>> THEN [queue |-> queue, in_degree |-> in_degree]
    ELSE LET successor == Head(succs)
             d == [in_degree EXCEPT ![successor] = @ - 1]
         IN Relax(Tail(succs),
                  IF d[successor] = 0 THEN Append(queue, successor) ELSE queue,
                  d)

\* the while-loop of Kahn's algorithm
RECURSIVE KahnLoop(_, _, _, _)
KahnLoop(queue, result, graph, in_degree) ==
    IF queue = <<>> THEN [result |-> result, in_degree |-> in_degree]
    ELSE LET sorted  == QueueSort(queue)
             current == Head(sorted)
             r       == Relax(graph[current], Tail(sorted), in_degree)
         IN KahnLoop(r.queue, Append(result, current), graph, r.in_degree)

\* [node_id for node_id, degree in in_degree.items() if degree == 0]
ZeroDegree(keys, in_degree) ==
    SelectIn(keys, {k \in Range(keys) : in_degree[k] = 0})

\* a report of every id whose in-degree is not negative
NonNegativeDegree(keys, in_degree) ==
    SelectIn(keys, {k \in Range(keys) : in_degree[k] >= 0})

\* [node_id for node_id, degree in in_degree.items() if degree > 0]
PositiveDegree(keys, in_degree) ==
    SelectIn(keys, {k \in Range(keys) : in_degree[k] > 0})

\* the has_cycle test compares against the number of distinct ids
CycleTestDistinct(visited_count, ns) == visited_count # Len(DictKeys(ns))

\* the has_cycle test of sort(): visited_count != len(nodes)
CycleTest(visited_count, ns) == visited_count # Len(ns)

\* sort() on a non-empty node list: what it raises or computes
SortRun(ns, ws) ==
    LET keys  == DictKeys(ns)
        built == BuildGraph(ws,
                            [id \in NodeIds \cup ValNodeIds |-> <<>>],
                            [id \in Range(keys) |-> 0])
    IN IF built.raised
       THEN [raised |-> TRUE, result |-> <<>>, has_cycle |-> FALSE, cycle_nodes |-> <<>>]
       ELSE LET queue == ZeroDegree(keys, built.in_degree)
                k     == KahnLoop(queue, <<>>, built.graph, built.in_degree)
                cyc   == CycleTest(Len(k.result), ns)
            IN [raised      |-> FALSE,
                result      |-> k.result,
                has_cycle   |-> cyc,
                cycle_nodes |-> IF cyc
                                THEN PositiveDegree(keys, k.in_degree)
                                ELSE <<>>]

\* _sorted_nodes: the Node objects (indices) of the ids of result
SortedNodes(ns, result) == [i \in DOMAIN result |-> get_node(ns, result[i])]

\* ------------------------------------- TopologySort.validate_connections
\* a variant with elif: at most one error per wire
WireErrorsFirstOnly(ns, w, i) ==
    IF w.source \notin Range(ns)
    THEN <<[kind |-> "source_missing", wire |-> i, node |-> w.source]>>
    ELSE IF w.target \notin Range(ns)
         THEN <<[kind |-> "target_missing", wire |-> i, node |-> w.target]>>
         ELSE IF w.source = w.target
              THEN <<[kind |-> "self_loop", wire |-> i, node |-> 0]>>
              ELSE <<>>

\* the three independent ifs of the loop body; an error message carries the
\* wire id and, for a missing endpoint, the missing node id
WireErrors(ns, w, i) ==
    (IF w.source \notin Range(ns)
     THEN <<[kind |-> "source_missing", wire |-> i, node |-> w.source]>> ELSE <<>>)
    \o (IF w.target \notin Range(ns)
        THEN <<[kind |-> "target_missing", wire |-> i, node |-> w.target]>> ELSE <<>>)
    \o (IF w.source = w.target
        THEN <<[kind |-> "self_loop", wire |-> i, node |-> 0]>> ELSE <<>>)

RECURSIVE ValidateLoop(_, _, _)
ValidateLoop(ns, ws, i) ==
    IF i > Len(ws) THEN <<>>
    ELSE WireErrors(ns, ws[i], i) \o ValidateLoop(ns, ws, i + 1)

validate_connections(ns, ws) ==
    LET errors == ValidateLoop(ns, ws, 1)
    IN [ok |-> Len(errors) = 0, errors |-> errors]

\* ------------------------------------- TopologySort.get_execution_levels
\* one run of `for wire in wires`: node_level[source_id] and
\* node_level[target_id] raise KeyError for an id that is no node
RECURSIVE LevelPass(_, _, _)
LevelPass(ws, node_level, changed) ==
    IF ws = <<>>
    THEN [raised |-> FALSE, node_level |-> node_level, changed |-> changed]
    ELSE LET source_id == Head(ws).source
             target_id == Head(ws).target
         IN IF source_id \notin DOMAIN node_level \/ target_id \notin DOMAIN node_level
            THEN [raised |-> TRUE, node_level |-> node_level, changed |-> changed]
            ELSE LET new_level == node_level[source_id] + 1
                 IN IF new_level > node_level[target_id]
                    THEN LevelPass(Tail(ws),
                                   [node_level EXCEPT ![target_id] = new_level], TRUE)
                    ELSE LevelPass(Tail(ws), node_level, changed)

\* a pass bound of one pass
OnePass(ns) == 1

\* max_iterations = len(nodes) + 1
max_iterations(ns) == Len(ns) + 1

\* while changed and iterations < max_iterations
RECURSIVE LevelLoop(_, _, _, _, _)
LevelLoop(ns, ws, node_level, changed, iterations) ==
    IF ~(changed /\ iterations < max_iterations(ns))
    THEN [raised |-> FALSE, node_level |-> node_level, changed |-> changed,
          iterations |-> iterations]
    ELSE LET p == LevelPass(ws, node_level, FALSE)
         IN IF p.raised
            THEN [raised |-> TRUE, node_level |-> node_level, changed |-> changed,
                  iterations |-> iterations + 1]
            ELSE LevelLoop(ns, ws, p.node_level, p.changed, iterations + 1)

\* max(node_level.values())
MaxLevel(node_level) ==
    CHOOSE m \in {node_level[id] : id \in DOMAIN node_level} :
        \A id \in DOMAIN node_level : node_level[id] <= m

\* the indices i of ns, in order, for which keep[i]
RECURSIVE IndicesWhere(_, _, _)
IndicesWhere(ns, i, keep) ==
    IF i > Len(ns) THEN <<>>
    ELSE (IF i \in keep THEN <<i>> ELSE <<>>) \o IndicesWhere(ns, i + 1, keep)

\* get_execution_levels on a non-empty node list: levels[l + 1] lists the
\* nodes (indices) of level l, in the order of project.nodes
get_execution_levels(ns, ws) ==
    LET r == LevelLoop(ns, ws, [id \in Range(ns) |-> 0], TRUE, 0)
    IN IF r.raised
       THEN [raised |-> TRUE, levels |-> <<>>, iterations |-> r.iterations,
             changed |-> r.changed]
       ELSE [raised |-> FALSE,
             levels |-> [l \in 1..(MaxLevel(r.node_level) + 1) |->
                            IndicesWhere(ns, 1, {i \in DOMAIN ns :
                                                   r.node_level[ns[i]] = l - 1})],
             iterations |-> r.iterations,
             changed |-> r.changed]

\* get_source_nodes: the nodes no wire has as its target
get_source_nodes(ns, ws) ==
    IndicesWhere(ns, 1, {i \in DOMAIN ns :
                            \A k \in DOMAIN ws : ws[k].target # ns[i]})

\* get_sink_nodes: the nodes no wire has as its source
get_sink_nodes(ns, ws) ==
    IndicesWhere(ns, 1, {i \in DOMAIN ns :
                            \A k \in DOMAIN ws : ws[k].source # ns[i]})

\* ----------------------------------------------------------- DAQCompiler
\* a compile without the has_cycle() test
CompileStagesNoCycleTest(ns, ws) ==
    IF ~validate_connections(ns, ws).ok THEN "validate"
    ELSE IF ns # <<>> /\ SortRun(ns, ws).raised THEN "raise"
         ELSE "generate"

\* steps 2 of compile_string / compile_file on a parsed project: where the
\* call ends ("validate": connection errors, "cycle": has_cycle(), "raise":
\* sort() raised, "generate": the code generator is reached)
CompileStages(ns, ws) ==
    IF ~validate_connections(ns, ws).ok THEN "validate"
    ELSE IF ns = <<>> THEN "generate"
         ELSE LET s == SortRun(ns, ws)
              IN IF s.raised THEN "raise"
                 ELSE IF s.has_cycle THEN "cycle" ELSE "generate"

\* ------------------------------------------------------------ the engine
\* Port.value of a port nothing has written yet
None == 0 - 1

\* the values a device may produce
Values == {1, 2}

\* ComponentRegistry._registry, restricted to six of the registered classes:
\* a device with its own timer thread, a logic component, a component that
\* relies on process() alone, a device with its own reader thread, a
\* protocol client whose network thread delivers messages, and a sink that
\* holds an open file
Registry == {"MockDevice", "MathOperation", "Counter", "SerialPort",
             "MQTTSubscriber", "CSVStorage"}

\* DAQEngine._PROCESS_COMPONENTS, restricted to the registered names above
\* ("Counter" and "MockDevice" are not in the set)
_PROCESS_COMPONENTS == {"MathOperation", "SerialPort", "CSVStorage"}

\* _setup_ports of each class
InputPorts(name) ==
    CASE name = "MathOperation" -> {"input1", "input2"}
      [] name = "Counter"       -> {"increment", "decrement", "reset", "set_value"}
      [] name = "SerialPort"    -> {"write_data", "send_trigger"}
      [] name = "CSVStorage"    -> {"data", "value", "enable"}
      [] OTHER                  -> {}

OutputPorts(name) ==
    CASE name = "MockDevice"    -> {"value", "data"}
      [] name = "MQTTSubscriber" -> {"data", "topic", "timestamp"}
      [] name = "MathOperation" -> {"result", "exceeded"}
      [] name = "Counter"       -> {"value", "at_min", "at_max"}
      [] name = "SerialPort"    -> {"read_data", "raw_bytes", "connected", "error",
                                    "rx_count", "tx_count"}
      [] name = "CSVStorage"    -> {"row_count", "success"}
      [] OTHER                  -> {}

\* ComponentBase.__init__: not running, every port holds None.  `configured`
\* records whether create() was given a non-empty config, that is whether
\* _on_configure has filled in the defaults.  `worker` tells whether the
\* component's own thread is alive, `stop_event` is the component's own
\* _stop_event (MockDevice, SerialPort).
NewComponent(type_name, instance_id, config) ==
    [id         |-> instance_id,
     name       |-> type_name,
     configured |-> config,
     running    |-> FALSE,
     worker     |-> FALSE,
     stop_event |-> FALSE,
     inp        |-> [p \in InputPorts(type_name) |-> None],
     out        |-> [p \in OutputPorts(type_name) |-> None]]

\* the None that ComponentRegistry.create returns for an unregistered name
NoComponent == NewComponent("None", 0, FALSE)

\* ComponentRegistry.create
RegistryCreate(type_name, instance_id, config) ==
    IF type_name \in Registry THEN NewComponent(type_name, instance_id, config)
    ELSE NoComponent

\* self._components.get(instance_id): position in the dict, 0 when absent
IndexOfId(comps, instance_id) ==
    IF \E i \in DOMAIN comps : comps[i].id = instance_id
    THEN CHOOSE i \in DOMAIN comps : comps[i].id = instance_id
    ELSE 0

\* self._components[instance_id] = component (an existing key keeps its place)
DictStore(comps, instance_id, component) ==
    LET i == IndexOfId(comps, instance_id)
    IN IF i = 0 THEN Append(comps, [component EXCEPT !.id = instance_id])
       ELSE [comps EXCEPT ![i] = [component EXCEPT !.id = instance_id]]

\* add_component with the assignment moved before the None test
AddComponentStoreFirst(comps, type_name, instance_id, config) ==
    LET component == RegistryCreate(type_name, instance_id, config)
    IN [raised     |-> component = NoComponent,
        components |-> DictStore(comps, instance_id, component)]

\* DAQEngine.add_component: the exception and the resulting dict
AddComponentResult(comps, type_name, instance_id, config) ==
    LET component == RegistryCreate(type_name, instance_id, config)
    IN IF component = NoComponent
       THEN [raised |-> TRUE, components |-> comps]
       ELSE [raised |-> FALSE,
             components |-> DictStore(comps, instance_id, component)]

\* the Connection dataclass
Connection(source_id, source_port, target_id, target_port) ==
    [source_component_id |-> source_id, source_port |-> source_port,
     target_component_id |-> target_id, target_port |-> target_port]

\* one iteration of _transfer_data that copies a None as well
TransferOneCopyNone(comps, conn) ==
    LET s == IndexOfId(comps, conn.source_component_id)
        t == IndexOfId(comps, conn.target_component_id)
    IN IF s = 0 \/ t = 0 THEN comps
       ELSE IF conn.source_port \notin DOMAIN comps[s].out THEN comps
       ELSE IF conn.target_port \in DOMAIN comps[t].inp
            THEN [comps EXCEPT ![t].inp[conn.target_port] =
                                   comps[s].out[conn.source_port]]
            ELSE comps

\* one iteration of the loop of _transfer_data
TransferOne(comps, conn) ==
    LET s == IndexOfId(comps, conn.source_component_id)
        t == IndexOfId(comps, conn.target_component_id)
    IN IF s = 0 \/ t = 0 THEN comps
       ELSE IF conn.source_port \notin DOMAIN comps[s].out THEN comps
       ELSE LET value == comps[s].out[conn.source_port]
            IN IF value = None THEN comps
               ELSE IF conn.target_port \in DOMAIN comps[t].inp
                    THEN [comps EXCEPT ![t].inp[conn.target_port] = value]
                    ELSE comps

\* DAQEngine._transfer_data: the connections in registration order
RECURSIVE _transfer_data(_, _)
_transfer_data(comps, conns) ==
    IF conns = <<>> THEN comps
    ELSE _transfer_data(TransferOne(comps, Head(conns)), Tail(conns))

\* `val2 or default` of MathOperationComponent._calculate
PyOr(val2, default) == IF val2 = None \/ val2 = 0 THEN default ELSE val2

\* process() raises: MathOperation reads self.config["operation"], a key
\* that only _on_configure provides
ProcessRaises(c) == c.name = "MathOperation" /\ ~c.configured

\* the effect of process() when it returns.  `generated` is the value a
\* MockDevice generates.  The status and statistics ports (exceeded,
\* at_min, at_max, connected, error, rx_count, tx_count) keep their value
\* here: no connection that is explored reads them.
Process(c, generated) ==
    CASE c.name = "MathOperation" ->
             IF c.inp["input1"] = None THEN c
             ELSE [c EXCEPT !.out["result"] =
                               c.inp["input1"] + PyOr(c.inp["input2"], 0)]
      [] c.name = "MockDevice" ->
             [c EXCEPT !.out["value"] = generated, !.out["data"] = generated]
      [] c.name = "Counter" -> [c EXCEPT !.out["value"] = 0]
      [] OTHER -> c

\* the test of _main_loop without the allow-list
ShouldProcessAnyRunning(c) == c.running

\* the test _main_loop makes before it calls component.process()
ShouldProcess(c) == c.running /\ c.name \in _PROCESS_COMPONENTS

\* component.start(): MockDevice and MQTTSubscriber raise when the broker
\* cannot be reached and are then left as they were (the classes that can
\* raise are the `failing` candidates of Start); SerialPort starts its reader thread when
\* pyserial is installed
StartComponent(c, mqtt_fails, serial_available) ==
    CASE c.name \in {"MockDevice", "MQTTSubscriber"} ->
             IF mqtt_fails THEN c
             ELSE [c EXCEPT !.running = TRUE, !.worker = TRUE,
                            !.stop_event = FALSE]
      [] c.name = "SerialPort" ->
             IF serial_available
             THEN [c EXCEPT !.running = TRUE, !.worker = TRUE,
                            !.stop_event = FALSE]
             ELSE [c EXCEPT !.running = TRUE]
      [] OTHER -> [c EXCEPT !.running = TRUE]

\* the for loop of start() without the try: it ends at the first exception
StartComponentsUntilRaise(comps, failing, serial_available) ==
    [i \in DOMAIN comps |->
        IF \E j \in failing : j < i THEN comps[i]
        ELSE StartComponent(comps[i], i \in failing, serial_available)]

\* the for loop of DAQEngine.start(): component.start() inside try/except,
\* for every component; `failing` are the positions whose start() raises
StartComponents(comps, failing, serial_available) ==
    [i \in DOMAIN comps |->
        StartComponent(comps[i], i \in failing, serial_available)]

\* the classes whose stop() sets the component's own _stop_event
HasStopEvent(c) == c.name \in {"MockDevice", "SerialPort"}

\* component.stop(): the component's thread is signalled and joined
StopComponent(c) ==
    [c EXCEPT !.running = FALSE, !.worker = FALSE,
              !.stop_event = IF HasStopEvent(c) THEN TRUE ELSE c.stop_event]

\* no CodeGenerator has been constructed
NoGenerator == [built |-> FALSE, sorted_nodes |-> <<>>, output_lines |-> <<>>]

\* no document has been handed to the parser
NoDoc == [sections |-> {}, devices |-> <<>>, nodes |-> <<>>, wires |-> <<>>,
          widgets |-> <<>>]

\* DAQProjectParser.__init__
NewParser == [errors |-> <<>>, warnings |-> <<>>]

\* no thread is inside start() or stop(), no loop thread exists
NoCallers == <<>>
NoLoops == <<>>
NoThread == 0

\* no CounterComponent and no TaskScheduler has been constructed
NoCounter == [built |-> FALSE]
NoScheduler == [built |-> FALSE]

\* the objects a specification does not follow stay as constructed
ObjectsInit ==
    /\ parser = NewParser
    /\ replaced = <<>>
    /\ callers = NoCallers
    /\ loops = NoLoops
    /\ loop_handle = NoThread
    /\ counter = NoCounter
    /\ scheduler = NoScheduler

\* DAQEngine.__init__
EngineInit ==
    /\ components = <<>>
    /\ connections = <<>>
    /\ is_running = FALSE
    /\ stop_event = FALSE
    /\ mainPc = "idle"
    /\ loopPc = "none"
    /\ loopIdx = 0
    /\ tickCalls = <<>>
    /\ eret = [op |-> "none"]
    /\ callbacks = <<>>
    /\ handler = <<>>
    /\ active = {}
    /\ mainOp = "none"
    /\ mainIdx = 0

\* ---------------------------------------------------------------- states
NoRet == [op |-> "none"]

TopoInit == [sorted_nodes |-> <<>>, has_cycle |-> FALSE, cycle_nodes |-> <<>>]

WiresOver(ids) == {Wire(s, t) : s \in ids, t \in ids}

Init ==
    /\ nodes \in SeqsUpTo(NodeIds, MaxNodes)
    /\ wires \in SeqsUpTo(WiresOver(NodeIds), MaxWires)
    /\ topo = TopoInit
    /\ ret = NoRet
    /\ doc = NoDoc
    /\ node_attrs = <<>>
    /\ generator = NoGenerator
    /\ ObjectsInit
    /\ EngineInit

InitValidate ==
    /\ nodes \in SeqsUpTo(ValNodeIds, MaxValNodes)
    /\ wires \in SeqsUpTo(WiresOver(ValNodeIds), MaxValWires)
    /\ topo = TopoInit
    /\ ret = NoRet
    /\ doc = NoDoc
    /\ node_attrs = <<>>
    /\ generator = NoGenerator
    /\ ObjectsInit
    /\ EngineInit

\* --------------------------------------------------------------- actions
\* TopologySort.sort()
Sort ==
    /\ IF nodes = <<>>
       THEN /\ ret' = [op |-> "sort", raised |-> FALSE, ids |-> <<>>, value |-> <<>>]
            /\ topo' = topo
       ELSE LET s == SortRun(nodes, wires)
            IN IF s.raised
               THEN /\ ret' = [op |-> "sort", raised |-> TRUE, ids |-> <<>>, value |-> <<>>]
                    /\ topo' = topo
               ELSE /\ topo' = [sorted_nodes |-> SortedNodes(nodes, s.result),
                                has_cycle    |-> s.has_cycle,
                                cycle_nodes  |-> IF s.has_cycle THEN s.cycle_nodes
                                                 ELSE topo.cycle_nodes]
                    /\ ret' = [op |-> "sort", raised |-> FALSE, ids |-> s.result,
                               value |-> SortedNodes(nodes, s.result)]
    /\ UNCHANGED <<nodes, wires, doc, node_attrs, generator>>
    /\ UNCHANGED evars
    /\ UNCHANGED gvars
    /\ UNCHANGED ovars

\* TopologySort.validate_connections()
ValidateConnections ==
    /\ LET v == validate_connections(nodes, wires)
       IN ret' = [op |-> "validate_connections", ok |-> v.ok, errors |-> v.errors]
    /\ UNCHANGED <<nodes, wires, topo, doc, node_attrs, generator>>
    /\ UNCHANGED evars
    /\ UNCHANGED gvars
    /\ UNCHANGED ovars

\* the outcome of a compile call: how it ended, whether CodeGenerator.generate
\* ran and whether the output file was written
CompileRet(op, ok, raised, stage, generated, wrote) ==
    [op |-> op, ok |-> ok, raised |-> raised, stage |-> stage,
     generated |-> generated, wrote |-> wrote]

\* DAQCompiler.compile_string(json_string); parsed = FALSE when parse_string
\* returns None
CompileString ==
    /\ \E parsed \in BOOLEAN :
         IF ~parsed
         THEN ret' = CompileRet("compile_string", FALSE, FALSE, "parse", FALSE, FALSE)
         ELSE LET stage == CompileStages(nodes, wires)
              IN ret' = CompileRet("compile_string", stage = "generate", stage = "raise",
                                   stage, stage = "generate", FALSE)
    /\ UNCHANGED <<nodes, wires, topo, doc, node_attrs, generator>>
    /\ UNCHANGED evars
    /\ UNCHANGED gvars
    /\ UNCHANGED ovars

\* DAQCompiler.compile_file(input_path, output_path); writable = FALSE when
\* open(output_path, "w") raises in save_to_file
CompileFile ==
    /\ \E parsed \in BOOLEAN, writable \in BOOLEAN :
         IF ~parsed
         THEN ret' = CompileRet("compile_file", FALSE, FALSE, "parse", FALSE, FALSE)
         ELSE LET stage == CompileStages(nodes, wires)
              IN IF stage = "generate"
                 THEN ret' = CompileRet("compile_file", writable, ~writable,
                                        IF writable THEN "generate" ELSE "save",
                                        TRUE, writable)
                 ELSE ret' = CompileRet("compile_file", FALSE, stage = "raise",
                                        stage, FALSE, FALSE)
    /\ UNCHANGED <<nodes, wires, topo, doc, node_attrs, generator>>
    /\ UNCHANGED evars
    /\ UNCHANGED gvars
    /\ UNCHANGED ovars

\* TopologySort.get_execution_levels(); `changed` and `iterations` are the
\* locals of the call when its while loop ends
ExecutionLevels ==
    /\ IF nodes = <<>>
       THEN ret' = [op |-> "get_execution_levels", raised |-> FALSE,
                    levels |-> <<>>, iterations |-> 0, changed |-> FALSE]
       ELSE LET r == get_execution_levels(nodes, wires)
            IN ret' = [op |-> "get_execution_levels", raised |-> r.raised,
                       levels |-> r.levels, iterations |-> r.iterations,
                       changed |-> r.changed]
    /\ UNCHANGED <<nodes, wires, topo, doc, node_attrs, generator>>
    /\ UNCHANGED evars
    /\ UNCHANGED gvars
    /\ UNCHANGED ovars

\* TopologySort.get_source_nodes()
SourceNodes ==
    /\ ret' = [op |-> "get_source_nodes", value |-> get_source_nodes(nodes, wires)]
    /\ UNCHANGED <<nodes, wires, topo, doc, node_attrs, generator>>
    /\ UNCHANGED evars
    /\ UNCHANGED gvars
    /\ UNCHANGED ovars

\* TopologySort.get_sink_nodes()
SinkNodes ==
    /\ ret' = [op |-> "get_sink_nodes", value |-> get_sink_nodes(nodes, wires)]
    /\ UNCHANGED <<nodes, wires, topo, doc, node_attrs, generator>>
    /\ UNCHANGED evars
    /\ UNCHANGED gvars
    /\ UNCHANGED ovars

Next == Sort \/ ValidateConnections

NextCompile == CompileString \/ CompileFile

Spec == Init /\ [][Next]_vars

SpecValidate == InitValidate /\ [][Next]_vars

\* the queries of a TopologySort object
NextQueries == ExecutionLevels \/ SourceNodes \/ SinkNodes

SpecQueries == Init /\ [][NextQueries]_vars

SpecCompile == Init /\ [][NextCompile]_vars

\* ------------------------------------------------------- engine actions
\* The API thread configures the engine before start() and after stop():
\* add_component and connect are not called while the loop thread runs.

\* DAQEngine.add_component(type_name, instance_id, config)
add_component(type_name, instance_id, config) ==
    /\ mainPc = "idle" /\ ~is_running
    /\ LET r == AddComponentResult(components, type_name, instance_id, config)
       IN /\ components' = r.components
          /\ eret' = [op |-> "add_component", raised |-> r.raised,
                      type_name |-> type_name]
    /\ UNCHANGED <<connections, is_running, stop_event, mainPc, loopPc,
                   loopIdx, tickCalls>>
    /\ UNCHANGED cvars
    /\ UNCHANGED gvars
    /\ UNCHANGED ovars

\* DAQEngine.connect(source_id, source_port, target_id, target_port)
connect(source_id, source_port, target_id, target_port) ==
    /\ mainPc = "idle" /\ ~is_running
    /\ Len(connections) < MaxConnections
    /\ LET connection == Connection(source_id, source_port, target_id, target_port)
       IN /\ connections' = Append(connections, connection)
          /\ eret' = [op |-> "connect", raised |-> FALSE,
                      connection |-> connection]
    /\ UNCHANGED <<components, is_running, stop_event, mainPc, loopPc,
                   loopIdx, tickCalls>>
    /\ UNCHANGED cvars
    /\ UNCHANGED gvars
    /\ UNCHANGED ovars

\* DAQEngine.start(): every component is started, an exception of one of
\* them is logged; then the loop thread is started.  start() is called when
\* no thread of an earlier run is left.
Start ==
    /\ mainPc = "idle" /\ ~is_running
    /\ loopPc = "none"
    /\ \A i \in DOMAIN components : ~components[i].worker
    /\ \E failing \in SUBSET {i \in DOMAIN components :
                  components[i].name \in {"MockDevice", "MQTTSubscriber"}},
          serial_available \in BOOLEAN :
           /\ components' = StartComponents(components, failing, serial_available)
           /\ eret' = [op |-> "start",
                       raised |-> {components[i].id : i \in failing}]
    /\ stop_event' = FALSE
    /\ loopPc' = "top"
    /\ loopIdx' = 0
    /\ tickCalls' = <<>>
    /\ is_running' = TRUE
    /\ UNCHANGED <<connections, mainPc>>
    /\ UNCHANGED cvars
    /\ UNCHANGED gvars
    /\ UNCHANGED ovars

\* DAQEngine.stop(), up to the join: the event is set
StopSignal ==
    /\ mainPc = "idle" /\ is_running
    /\ stop_event' = TRUE
    /\ mainPc' = "joining"
    /\ UNCHANGED <<components, connections, is_running, loopPc, loopIdx,
                   tickCalls, eret>>
    /\ UNCHANGED cvars
    /\ UNCHANGED gvars
    /\ UNCHANGED ovars

\* DAQEngine.stop(), from the return of the join (the loop thread has left
\* within the timeout): every component is stopped
StopJoin ==
    /\ mainPc = "joining" /\ loopPc = "none"
    /\ components' = [i \in DOMAIN components |-> StopComponent(components[i])]
    /\ is_running' = FALSE
    /\ mainPc' = "idle"
    /\ UNCHANGED <<connections, stop_event, loopPc, loopIdx, tickCalls, eret>>
    /\ UNCHANGED cvars
    /\ UNCHANGED gvars
    /\ UNCHANGED ovars

\* _main_loop: the test of the while and, when the event is not set, the
\* propagation phase of a tick
TickBegin ==
    /\ loopPc \in {"top", "wait"}
    /\ IF stop_event
       THEN /\ loopPc' = "none"
            /\ loopIdx' = 0
            /\ tickCalls' = <<>>
            /\ UNCHANGED components
       ELSE /\ components' = _transfer_data(components, connections)
            /\ loopPc' = "process"
            /\ loopIdx' = 1
            /\ tickCalls' = <<>>
    /\ UNCHANGED <<connections, is_running, stop_event, mainPc, eret>>
    /\ UNCHANGED cvars
    /\ UNCHANGED gvars
    /\ UNCHANGED ovars

\* the values a call of process() may generate
Generated(c) == IF c.name = "MockDevice" THEN Values ELSE {None}

\* _main_loop: one iteration of `for component in self._components.values()`,
\* or the end of the for; an exception of process() ends the tick in the
\* except clause
ProcessStep ==
    /\ loopPc = "process"
    /\ IF loopIdx > Len(components)
       THEN /\ loopPc' = "wait"
            /\ loopIdx' = 0
            /\ UNCHANGED <<components, tickCalls>>
       ELSE LET c == components[loopIdx]
            IN IF ShouldProcess(c)
               THEN /\ tickCalls' = Append(tickCalls, [id |-> c.id, name |-> c.name])
                    /\ IF ProcessRaises(c)
                       THEN /\ loopPc' = "wait"
                            /\ loopIdx' = 0
                            /\ UNCHANGED components
                       ELSE /\ \E generated \in Generated(c) :
                                   components' = [components EXCEPT
                                       ![loopIdx] = Process(c, generated)]
                            /\ loopIdx' = loopIdx + 1
                            /\ UNCHANGED loopPc
               ELSE /\ loopIdx' = loopIdx + 1
                    /\ UNCHANGED <<components, tickCalls, loopPc>>
    /\ UNCHANGED <<connections, is_running, stop_event, mainPc, eret>>
    /\ UNCHANGED cvars
    /\ UNCHANGED gvars
    /\ UNCHANGED ovars

\* what a component's own thread writes: MockDevice._publish_data,
\* SerialPortComponent._read_loop
Publish(c, v) ==
    CASE c.name = "MockDevice" ->
             [c EXCEPT !.out["value"] = v, !.out["data"] = v]
      [] c.name = "SerialPort" ->
             [c EXCEPT !.out["read_data"] = v, !.out["raw_bytes"] = v]
      [] OTHER -> c

\* a step of the own thread of a component
WorkerPublish ==
    /\ \E i \in DOMAIN components, v \in Values :
          /\ components[i].worker
          /\ components' = [components EXCEPT ![i] = Publish(components[i], v)]
    /\ UNCHANGED <<connections, is_running, stop_event, mainPc, loopPc,
                   loopIdx, tickCalls, eret>>
    /\ UNCHANGED cvars
    /\ UNCHANGED gvars
    /\ UNCHANGED ovars

\* the calls explored on an engine that is only configured
CfgIds == {1, 2}
CfgTypeNames == {"MockDevice", "MathOperation", "Unknown"}
CfgSourcePorts == {"value", "nope"}
CfgTargetPorts == {"input1", "nope"}

CfgAddComponent ==
    \E type_name \in CfgTypeNames, instance_id \in CfgIds :
        add_component(type_name, instance_id, TRUE)

CfgConnect ==
    \E source_id \in CfgIds, target_id \in CfgIds,
       source_port \in CfgSourcePorts, target_port \in CfgTargetPorts :
        connect(source_id, source_port, target_id, target_port)

\* the calls explored on an engine that is run: the instance ids are 1, 2, ..
\* in the order of the calls; MathOperation is created with and without a
\* config, the other classes with one
EngineKinds ==
    ({"MockDevice", "MathOperation", "Counter", "SerialPort"} \X {TRUE})
        \cup {<<"MathOperation", FALSE>>}
EngineSourcePorts == {"value", "result"}

EngAddComponent ==
    /\ Len(components) < MaxComponents
    /\ \E k \in EngineKinds : add_component(k[1], Len(components) + 1, k[2])

EngConnect ==
    \E source_id \in 1..MaxComponents, target_id \in 1..MaxComponents,
       source_port \in EngineSourcePorts :
        connect(source_id, source_port, target_id, "input1")

NextConfig == CfgAddComponent \/ CfgConnect

NextEngine ==
    \/ EngAddComponent
    \/ EngConnect
    \/ Start
    \/ StopSignal
    \/ StopJoin
    \/ TickBegin
    \/ ProcessStep
    \/ WorkerPublish

InitEngine ==
    /\ nodes = <<>>
    /\ wires = <<>>
    /\ topo = TopoInit
    /\ ret = NoRet
    /\ doc = NoDoc
    /\ node_attrs = <<>>
    /\ generator = NoGenerator
    /\ ObjectsInit
    /\ EngineInit

SpecConfig == InitEngine /\ [][NextConfig]_vars

SpecEngine == InitEngine /\ [][NextEngine]_vars

\* ------------------------------------------------ graph-theoretic notions
NodeIdSet == Range(nodes)

\* the wire graph on the project's nodes, one edge per (source, target) pair
Edges == {<<w.source, w.target>> : w \in {x \in Range(wires) :
                                          x.source \in NodeIdSet /\ x.target \in NodeIdSet}}

RECURSIVE ReachableFrom(_, _)
ReachableFrom(E, S) ==
    LET next == S \cup {e[2] : e \in {x \in E : x[1] \in S}}
    IN IF next = S THEN S ELSE ReachableFrom(E, next)

HasDirectedCycle == \E e \in Edges : e[1] \in ReachableFrom(Edges, {e[2]})

\* every wire joins two existing, distinct nodes
WiresResolve ==
    \A i \in DOMAIN wires :
        /\ wires[i].source \in NodeIdSet
        /\ wires[i].target \in NodeIdSet
        /\ wires[i].source # wires[i].target

UniqueIds == \A i, j \in DOMAIN nodes : nodes[i] = nodes[j] => i = j

SortReturned == ret.op = "sort" /\ ~ret.raised

\* position of the first node carrying id in the returned list, 0 if absent
PosOf(id) ==
    IF \E k \in DOMAIN ret.value : nodes[ret.value[k]] = id
    THEN CHOOSE k \in DOMAIN ret.value : nodes[ret.value[k]] = id
    ELSE 0

\* the returned list holds every node of the project exactly once, with the
\* source of every wire ahead of its target, and no cycle is reported
SortedTopologically ==
    /\ \A i \in DOMAIN nodes : Cardinality({k \in DOMAIN ret.value : ret.value[k] = i}) = 1
    /\ \A i \in DOMAIN wires :
          /\ PosOf(wires[i].source) > 0
          /\ PosOf(wires[i].source) < PosOf(wires[i].target)
    /\ ~topo.has_cycle

\* C1 (as claimed): for any project whose wires all join existing, distinct
\* nodes and whose wire graph is acyclic, sort() returns every node exactly
\* once, every wire's source ahead of its target, and has_cycle() is false.
C1_SortOrdersEveryAcyclicProject ==
    (ret.op = "sort" /\ WiresResolve /\ ~HasDirectedCycle)
        => (~ret.raised /\ SortedTopologically)

\* the same statement for projects whose node ids are pairwise different
\* (holds; not a claim of its own)
SortOrdersUniqueIdProjects ==
    (ret.op = "sort" /\ WiresResolve /\ ~HasDirectedCycle /\ UniqueIds)
        => (~ret.raised /\ SortedTopologically)

\* ---- C2
Permuted(s, p) == [i \in DOMAIN s |-> s[p[i]]]

\* what a caller of sort() observes on the project (ns, ws): the id sequence,
\* or that the call raised
SortOutcome(ns, ws) ==
    IF ns = <<>> THEN [raised |-> FALSE, ids |-> <<>>]
    ELSE LET s == SortRun(ns, ws) IN [raised |-> s.raised, ids |-> s.result]

Predecessors(id) == {w.source : w \in {x \in Range(wires) : x.target = id}}

\* the nodes that are ready before step k: not yet emitted, all predecessors
\* emitted
ReadyAt(k) ==
    LET emitted == {ret.ids[j] : j \in 1..(k - 1)}
    IN {id \in NodeIdSet \ emitted : Predecessors(id) \subseteq emitted}

IsMin(x, S) == x \in S /\ \A y \in S : x <= y

\* C2: the id sequence of sort() is the same for every permutation of
\* project.nodes and of project.wires and for a repeated call, and each
\* emitted id is the smallest id among the nodes whose predecessors have all
\* been emitted (the loop ends only when no such node is left).
C2_SortDeterministic ==
    /\ [](ret.op = "sort" =>
            /\ \A p \in Permutations(DOMAIN nodes) :
                  SortOutcome(Permuted(nodes, p), wires)
                      = [raised |-> ret.raised, ids |-> ret.ids]
            /\ \A q \in Permutations(DOMAIN wires) :
                  SortOutcome(nodes, Permuted(wires, q))
                      = [raised |-> ret.raised, ids |-> ret.ids]
            /\ (~ret.raised /\ nodes # <<>>) =>
                  /\ \A k \in DOMAIN ret.ids : IsMin(ret.ids[k], ReadyAt(k))
                  /\ ReadyAt(Len(ret.ids) + 1) = {})
    /\ [][(ret.op = "sort" /\ ret'.op = "sort") => ret' = ret]_vars

\* two nodes are ready at once, listed in the document in descending order,
\* and a third node waits for one of them
C2_Witness ==
    /\ SortReturned
    /\ Len(nodes) = 3
    /\ nodes[1] > nodes[2]
    /\ {nodes[1], nodes[2]} \subseteq ReadyAt(1)
    /\ nodes[3] \notin ReadyAt(1)
    /\ Len(ret.ids) = 3

\* ---- C3
\* C3: after sort() has returned, has_cycle() is false exactly when the
\* returned list has len(project.nodes) entries; when the wire graph on the
\* project's nodes has a directed cycle the list is strictly shorter than
\* len(project.nodes) and get_cycle_nodes() is not empty.
C3_CycleIffShort ==
    SortReturned =>
        /\ (~topo.has_cycle) <=> (Len(ret.value) = Len(nodes))
        /\ HasDirectedCycle =>
              /\ Len(ret.value) < Len(nodes)
              /\ topo.cycle_nodes # <<>>

C3_Witness ==
    /\ SortReturned
    /\ HasDirectedCycle
    /\ WiresResolve
    /\ topo.has_cycle
    /\ Len(ret.value) < Len(nodes)
    /\ Len(topo.cycle_nodes) = 2

\* ---- C4
SourceMissing(i) == wires[i].source \notin NodeIdSet
TargetMissing(i) == wires[i].target \notin NodeIdSet
SelfLoop(i) == wires[i].source = wires[i].target

\* the violations of a project, one per violated condition per wire
Violations ==
    {[kind |-> "source_missing", wire |-> i, node |-> wires[i].source] :
         i \in {j \in DOMAIN wires : SourceMissing(j)}}
    \cup {[kind |-> "target_missing", wire |-> i, node |-> wires[i].target] :
         i \in {j \in DOMAIN wires : TargetMissing(j)}}
    \cup {[kind |-> "self_loop", wire |-> i, node |-> 0] :
         i \in {j \in DOMAIN wires : SelfLoop(j)}}

\* C4: validate_connections() returns ok exactly when no wire has a missing
\* source, a missing target or equal endpoints; the error list holds one
\* entry per violated condition per wire, and a dangling-endpoint entry
\* names the missing node id.
C4_ValidateReportsAll ==
    ret.op = "validate_connections" =>
        /\ ret.ok <=> (\A i \in DOMAIN wires :
                          ~SourceMissing(i) /\ ~TargetMissing(i) /\ ~SelfLoop(i))
        /\ Range(ret.errors) = Violations
        /\ Len(ret.errors) = Cardinality(Violations)

\* three wires with one dangling endpoint each and one self-loop: 4 errors
C4_Witness ==
    /\ ret.op = "validate_connections"
    /\ Len(wires) = 4
    /\ \A i \in 1..3 : (SourceMissing(i) # TargetMissing(i)) /\ ~SelfLoop(i)
    /\ SelfLoop(4) /\ ~SourceMissing(4)
    /\ ~ret.ok
    /\ Len(ret.errors) = 4

\* ---- C5
IsCompile == ret.op \in {"compile_string", "compile_file"}

\* C5: compile_string / compile_file return (True, code) only for a project
\* whose wires all resolve without self-loop and whose graph has no cycle;
\* with a dangling or self-looping wire or a cycle they return (False,
\* message), the code generator is not run and no file is written.
C5_CompileBlocksInvalidGraphs ==
    IsCompile =>
        /\ ret.ok => (WiresResolve /\ ~HasDirectedCycle)
        /\ (~WiresResolve \/ HasDirectedCycle) =>
              (~ret.ok /\ ~ret.raised /\ ~ret.generated /\ ~ret.wrote)

\* compile_file on a parsed project with a two-node cycle
C5_Witness ==
    /\ ret.op = "compile_file"
    /\ WiresResolve /\ HasDirectedCycle
    /\ ret.stage = "cycle"
    /\ ~ret.ok /\ ~ret.generated /\ ~ret.wrote

\* ------------------------------------------- stop() and destroy() in steps
\* SpecEngine takes stop() from the return of the join as one step
\* (StopJoin), which assumes that every join succeeds.  The actions below
\* follow stop() and destroy() statement by statement: every join has a
\* timeout of 2 s and returns whether or not the joined thread has left.

\* self._main_loop_thread.join(timeout=2) returns: the loop thread has left,
\* or 2 s have passed while it is inside a tick (a thread that is at the
\* while test or in wait(0.1) leaves as soon as the event is set)
JoinLoop ==
    /\ mainPc = "joining"
    /\ loopPc \in {"none", "process"}
    /\ mainPc' = "stopping"
    /\ mainIdx' = 1
    /\ UNCHANGED <<callbacks, handler, active, mainOp>>
    /\ UNCHANGED <<components, connections, is_running, stop_event, loopPc,
                   loopIdx, tickCalls, eret>>
    /\ UNCHANGED cvars
    /\ UNCHANGED ovars

\* stop() of a component raises: CSVStorage flushes and closes its open file
\* before it calls super().stop()
StopRaises(c, io_error) == c.name = "CSVStorage" /\ c.running /\ io_error

\* the for loop of stop(): component.stop() inside try/except, up to the
\* join of the component's own thread when it has one; after the loop
\* _is_running is cleared and stop() returns
ComponentStop ==
    /\ mainPc = "stopping"
    /\ IF mainIdx > Len(components)
       THEN /\ is_running' = FALSE
            /\ IF mainOp = "destroy"
               THEN /\ mainPc' = "destroying"
                    /\ mainIdx' = 1
                    /\ UNCHANGED eret
               ELSE /\ mainPc' = "idle"
                    /\ mainIdx' = 0
                    /\ eret' = [op |-> "stop"]
            /\ UNCHANGED components
       ELSE LET c == components[mainIdx]
            IN /\ UNCHANGED <<is_running, eret>>
               /\ IF HasStopEvent(c)
                  THEN /\ components' = [components EXCEPT
                                            ![mainIdx].stop_event = TRUE]
                       /\ mainPc' = "comp_join"
                       /\ UNCHANGED mainIdx
                  ELSE /\ \E io_error \in BOOLEAN :
                             components' = [components EXCEPT ![mainIdx] =
                                 IF StopRaises(c, io_error) THEN c
                                 ELSE StopComponent(c)]
                       /\ mainIdx' = mainIdx + 1
                       /\ UNCHANGED mainPc
    /\ UNCHANGED <<callbacks, handler, active, mainOp>>
    /\ UNCHANGED <<connections, stop_event, loopPc, loopIdx, tickCalls>>
    /\ UNCHANGED cvars
    /\ UNCHANGED ovars

\* MockDevice.stop / SerialPort.stop from the return of the thread's
\* join(timeout=2) on: super().stop()
ComponentJoin ==
    /\ mainPc = "comp_join"
    /\ components' = [components EXCEPT ![mainIdx].running = FALSE]
    /\ mainIdx' = mainIdx + 1
    /\ mainPc' = "stopping"
    /\ UNCHANGED <<callbacks, handler, active, mainOp>>
    /\ UNCHANGED <<connections, is_running, stop_event, loopPc, loopIdx,
                   tickCalls, eret>>
    /\ UNCHANGED cvars
    /\ UNCHANGED ovars

\* the while test of a worker loop that never looks at the event
WorkerSeesStopNever(c) == FALSE

\* `while not self._stop_event.is_set()` of _timer_loop / _read_loop, and
\* the return of self._stop_event.wait(interval)
WorkerSeesStop(c) == c.stop_event

\* one iteration of the thread of the i-th component: it leaves when its
\* event is set, else it publishes and waits
WorkerLoop(i) ==
    /\ i \in DOMAIN components
    /\ components[i].worker
    /\ HasStopEvent(components[i])
    /\ IF WorkerSeesStop(components[i])
       THEN components' = [components EXCEPT ![i].worker = FALSE]
       ELSE \E v \in Values :
               components' = [components EXCEPT ![i] = Publish(components[i], v)]
    /\ UNCHANGED <<connections, is_running, stop_event, mainPc, loopPc,
                   loopIdx, tickCalls, eret>>
    /\ UNCHANGED cvars
    /\ UNCHANGED gvars
    /\ UNCHANGED ovars

\* DAQEngine.destroy(): self.stop(), which returns at once on an engine that
\* is not running
DestroyBegin ==
    /\ mainPc = "idle"
    /\ mainOp' = "destroy"
    /\ IF is_running
       THEN /\ stop_event' = TRUE
            /\ mainPc' = "joining"
            /\ UNCHANGED mainIdx
       ELSE /\ mainPc' = "destroying"
            /\ mainIdx' = 1
            /\ UNCHANGED stop_event
    /\ UNCHANGED <<callbacks, handler, active>>
    /\ UNCHANGED <<components, connections, is_running, loopPc, loopIdx,
                   tickCalls, eret>>
    /\ UNCHANGED cvars
    /\ UNCHANGED ovars

\* the for loop of destroy(): component.destroy(), which stops a component
\* that is still running and is not inside a try; after the loop both
\* tables are cleared
DestroyComponent ==
    /\ mainPc = "destroying"
    /\ IF mainIdx > Len(components)
       THEN /\ components' = <<>>
            /\ connections' = <<>>
            /\ mainPc' = "idle"
            /\ mainOp' = "none"
            /\ mainIdx' = 0
            /\ eret' = [op |-> "destroy", failed |-> FALSE]
       ELSE LET c == components[mainIdx]
            IN \E io_error \in BOOLEAN :
                 IF StopRaises(c, io_error)
                 THEN /\ mainPc' = "idle"
                      /\ mainOp' = "none"
                      /\ mainIdx' = 0
                      /\ eret' = [op |-> "destroy", failed |-> TRUE]
                      /\ UNCHANGED <<components, connections>>
                 ELSE /\ components' = [components EXCEPT ![mainIdx] =
                             IF c.running \/ c.name = "SerialPort"
                             THEN StopComponent(c) ELSE c]
                      /\ mainIdx' = mainIdx + 1
                      /\ UNCHANGED <<connections, mainPc, mainOp, eret>>
    /\ UNCHANGED <<callbacks, handler, active>>
    /\ UNCHANGED <<is_running, stop_event, loopPc, loopIdx, tickCalls>>
    /\ UNCHANGED cvars
    /\ UNCHANGED ovars

\* the components explored: a device with a timer thread, a logic component
\* and a sink whose stop() can fail; they are added while no thread is left
ShutdownKinds == {"MockDevice", "MathOperation", "CSVStorage"}

SdAddComponent ==
    /\ Len(components) < MaxComponents
    /\ loopPc = "none"
    /\ \A i \in DOMAIN components : ~components[i].worker
    /\ \E type_name \in ShutdownKinds :
          add_component(type_name, Len(components) + 1, TRUE)

NextShutdown ==
    \/ SdAddComponent
    \/ Start
    \/ TickBegin
    \/ ProcessStep
    \/ \E i \in 1..MaxComponents : WorkerLoop(i)
    \/ StopSignal
    \/ JoinLoop
    \/ ComponentStop
    \/ ComponentJoin
    \/ DestroyBegin
    \/ DestroyComponent

SpecShutdown == InitEngine /\ [][NextShutdown]_vars

\* every thread keeps taking steps: the loop thread, the thread of each
\* component, and the API thread while it is inside stop() or destroy()
ShutdownFairness ==
    /\ WF_vars(TickBegin)
    /\ WF_vars(ProcessStep)
    /\ \A i \in 1..MaxComponents : WF_vars(WorkerLoop(i))
    /\ WF_vars(JoinLoop)
    /\ WF_vars(ComponentStop)
    /\ WF_vars(ComponentJoin)
    /\ WF_vars(DestroyComponent)

SpecShutdownFair == SpecShutdown /\ ShutdownFairness

\* ------------------------------------- start() and stop() from two threads
\* start() and stop() take no lock.  Each of the threads below calls them
\* at will; a call is followed from one access of the engine's fields to the
\* next.  Every start() that gets that far creates its own _main_loop
\* thread; a loop thread leaves when it finds the event set at its while
\* test.  A tick of a loop thread is one step here (SpecEngine follows it
\* call by call).
MaxLoopThreads == 3
CallerIds == {1, 2}
LoopIds == 1..MaxLoopThreads

CallerIdle == [pc |-> "idle", started |-> 0]

\* the loop threads that are alive
AliveLoops == {l \in LoopIds : loops[l] # "none"}

\* is_alive() of the thread a handle names
IsAlive(handle) == handle # NoThread /\ loops[handle] # "none"

\* the for loop of a tick: process() of every running component of
\* _PROCESS_COMPONENTS, up to the first exception
RECURSIVE ProcessAll(_, _)
ProcessAll(comps, i) ==
    IF i > Len(comps) THEN comps
    ELSE IF ~ShouldProcess(comps[i]) THEN ProcessAll(comps, i + 1)
    ELSE IF ProcessRaises(comps[i]) THEN comps
    ELSE ProcessAll([comps EXCEPT ![i] = Process(comps[i], None)], i + 1)

\* the engine the threads share: a device wired to a logic component
InitCallers ==
    /\ nodes = <<>>
    /\ wires = <<>>
    /\ topo = TopoInit
    /\ ret = NoRet
    /\ doc = NoDoc
    /\ node_attrs = <<>>
    /\ generator = NoGenerator
    /\ parser = NewParser
    /\ replaced = <<>>
    /\ counter = NoCounter
    /\ scheduler = NoScheduler
    /\ EngineInit
    /\ callers = [t \in CallerIds |-> CallerIdle]
    /\ loops = [l \in LoopIds |-> "none"]
    /\ loop_handle = NoThread

\* what the actions of this section leave alone
CallersFrame ==
    /\ UNCHANGED <<connections, mainPc, loopPc, loopIdx, tickCalls>>
    /\ UNCHANGED <<parser, replaced, counter, scheduler>>
    /\ UNCHANGED cvars
    /\ UNCHANGED gvars

\* the engine is configured before the threads use it
CallersAddComponent ==
    /\ Len(components) < MaxComponents
    /\ \A t \in CallerIds : callers[t].pc = "idle"
    /\ AliveLoops = {}
    /\ \E type_name \in {"MathOperation", "MockDevice"} :
          add_component(type_name, Len(components) + 1, TRUE)

\* start(): the test `if self._is_running`, which returns on a running
\* engine
StartCheck(t) ==
    /\ callers[t].pc = "idle"
    /\ IF is_running
       THEN /\ eret' = [op |-> "start", thread |-> t, was_running |-> TRUE,
                        started |-> 0, created_loop |-> FALSE]
            /\ UNCHANGED callers
       ELSE /\ callers' = [callers EXCEPT ![t] = [pc |-> "start_components",
                                                   started |-> 0]]
            /\ UNCHANGED eret
    /\ UNCHANGED <<components, is_running, stop_event, loops, loop_handle>>
    /\ CallersFrame

\* start(): the for loop that starts every component
StartAll(t) ==
    /\ callers[t].pc = "start_components"
    /\ \E failing \in SUBSET {i \in DOMAIN components :
                  components[i].name \in {"MockDevice", "MQTTSubscriber"}} :
          components' = StartComponents(components, failing, TRUE)
    /\ callers' = [callers EXCEPT ![t] = [pc |-> "start_loop",
                                          started |-> Len(components)]]
    /\ UNCHANGED <<is_running, stop_event, loops, loop_handle, eret>>
    /\ CallersFrame

\* start(): _stop_event.clear(), the new Thread stored in
\* _main_loop_thread and started
StartLoop(t) ==
    /\ callers[t].pc = "start_loop"
    /\ \E l \in LoopIds :
          /\ loops[l] = "none"
          /\ loops' = [loops EXCEPT ![l] = "top"]
          /\ loop_handle' = l
    /\ stop_event' = FALSE
    /\ callers' = [callers EXCEPT ![t].pc = "start_done"]
    /\ UNCHANGED <<components, is_running, eret>>
    /\ CallersFrame

\* start(): self._is_running = True, and the return
StartDone(t) ==
    /\ callers[t].pc = "start_done"
    /\ is_running' = TRUE
    /\ eret' = [op |-> "start", thread |-> t, was_running |-> FALSE,
                started |-> callers[t].started, created_loop |-> TRUE]
    /\ callers' = [callers EXCEPT ![t] = CallerIdle]
    /\ UNCHANGED <<components, stop_event, loops, loop_handle>>
    /\ CallersFrame

\* stop(): the test `if not self._is_running`, which returns on an engine
\* that is not running; else the event is set
StopCheck(t) ==
    /\ callers[t].pc = "idle"
    /\ IF ~is_running
       THEN /\ eret' = [op |-> "stop", thread |-> t]
            /\ UNCHANGED <<callers, stop_event>>
       ELSE /\ stop_event' = TRUE
            /\ callers' = [callers EXCEPT ![t].pc = "joining"]
            /\ UNCHANGED eret
    /\ UNCHANGED <<components, is_running, loops, loop_handle>>
    /\ CallersFrame

\* stop(): self._main_loop_thread.join(timeout=2) returns, because the
\* thread has left or because 2 s have passed while it is inside a tick
JoinReturns(t) ==
    /\ callers[t].pc = "joining"
    /\ ~IsAlive(loop_handle) \/ loops[loop_handle] = "tick"
    /\ callers' = [callers EXCEPT ![t].pc = "stop_components"]
    /\ UNCHANGED <<components, is_running, stop_event, loops, loop_handle, eret>>
    /\ CallersFrame

\* stop(): the for loop that stops every component, self._is_running =
\* False, and the return
StopAll(t) ==
    /\ callers[t].pc = "stop_components"
    /\ components' = [i \in DOMAIN components |-> StopComponent(components[i])]
    /\ is_running' = FALSE
    /\ eret' = [op |-> "stop", thread |-> t]
    /\ callers' = [callers EXCEPT ![t] = CallerIdle]
    /\ UNCHANGED <<stop_event, loops, loop_handle>>
    /\ CallersFrame

\* _main_loop of one loop thread: the while test, and, when the event is
\* not set, the whole tick
LoopTest(l) ==
    /\ loops[l] = "top"
    /\ IF stop_event
       THEN /\ loops' = [loops EXCEPT ![l] = "none"]
            /\ UNCHANGED components
       ELSE /\ loops' = [loops EXCEPT ![l] = "tick"]
            /\ components' = ProcessAll(_transfer_data(components, connections), 1)
    /\ UNCHANGED <<is_running, stop_event, callers, loop_handle, eret>>
    /\ CallersFrame

\* _main_loop of one loop thread: the tick is over, wait(0.1) has returned
LoopTickEnds(l) ==
    /\ loops[l] = "tick"
    /\ loops' = [loops EXCEPT ![l] = "top"]
    /\ UNCHANGED <<components, is_running, stop_event, callers, loop_handle, eret>>
    /\ CallersFrame

NextCallers ==
    \/ CallersAddComponent
    \/ \E t \in CallerIds :
          \/ StartCheck(t)
          \/ StartAll(t)
          \/ StartLoop(t)
          \/ StartDone(t)
          \/ StopCheck(t)
          \/ JoinReturns(t)
          \/ StopAll(t)
    \/ \E l \in LoopIds : LoopTest(l) \/ LoopTickEnds(l)

SpecCallers == InitCallers /\ [][NextCallers]_vars

\* ------------------------------------ add_component on an id that is taken
\* add_component stores the new instance under its id whether or not the
\* id is taken and whether or not the engine runs; the instance that was
\* stored there leaves the dict as it is.  `replaced` collects the
\* instances that left this way.  Every call is one step here.
MaxReplaced == 2
ReplIds == {1, 2}
ReplTypeNames == {"MockDevice", "MathOperation"}

\* what the actions of this section leave alone
ReplFrame ==
    /\ UNCHANGED <<connections, mainPc, loopIdx, tickCalls>>
    /\ UNCHANGED <<parser, callers, loops, loop_handle, counter, scheduler>>
    /\ UNCHANGED cvars
    /\ UNCHANGED gvars

\* the instance that self._components[instance_id] = component takes out
\* of the dict, if the id was present
Dropped(comps, instance_id) ==
    LET i == IndexOfId(comps, instance_id)
    IN IF i = 0 THEN <<>> ELSE <<comps[i]>>

\* DAQEngine.add_component, on a stopped or a running engine
ReplAddComponent ==
    \E type_name \in ReplTypeNames, instance_id \in ReplIds :
        LET r == AddComponentResult(components, type_name, instance_id, TRUE)
            dropped == Dropped(components, instance_id)
        IN /\ Len(replaced) + Len(dropped) <= MaxReplaced
           /\ components' = r.components
           /\ replaced' = replaced \o dropped
           /\ eret' = [op |-> "add_component", raised |-> r.raised,
                       type_name |-> type_name]
           /\ UNCHANGED <<is_running, stop_event, loopPc>>
           /\ ReplFrame

\* DAQEngine.connect: the device's value wired to the logic component
ReplConnect ==
    /\ connections = <<>>
    /\ connections' = <<Connection(1, "value", 2, "input1")>>
    /\ eret' = [op |-> "connect", raised |-> FALSE]
    /\ UNCHANGED <<components, is_running, stop_event, loopPc, replaced>>
    /\ UNCHANGED <<mainPc, loopIdx, tickCalls>>
    /\ UNCHANGED <<parser, callers, loops, loop_handle, counter, scheduler>>
    /\ UNCHANGED cvars
    /\ UNCHANGED gvars

\* DAQEngine.start(): returns on a running engine; else starts every
\* component of the dict and the loop thread
ReplStart ==
    /\ IF is_running
       THEN UNCHANGED <<components, is_running, stop_event, loopPc>>
       ELSE /\ \E failing \in SUBSET {i \in DOMAIN components :
                      components[i].name \in {"MockDevice", "MQTTSubscriber"}} :
                  components' = StartComponents(components, failing, TRUE)
            /\ stop_event' = FALSE
            /\ loopPc' = "top"
            /\ is_running' = TRUE
    /\ eret' = [op |-> "start", was_running |-> is_running]
    /\ UNCHANGED replaced
    /\ ReplFrame

\* _main_loop: one tick
ReplTick ==
    /\ loopPc = "top"
    /\ ~stop_event
    /\ components' = ProcessAll(_transfer_data(components, connections), 1)
    /\ UNCHANGED <<is_running, stop_event, loopPc, eret, replaced>>
    /\ ReplFrame

\* DAQEngine.stop(): returns on an engine that is not running; else the
\* event is set, the loop thread leaves and is joined, and stop() is called
\* on every component of the dict
ReplStop ==
    /\ IF ~is_running
       THEN UNCHANGED <<components, is_running, stop_event, loopPc>>
       ELSE /\ stop_event' = TRUE
            /\ loopPc' = "none"
            /\ components' = [i \in DOMAIN components |->
                                 StopComponent(components[i])]
            /\ is_running' = FALSE
    /\ eret' = [op |-> "stop", was_running |-> is_running]
    /\ UNCHANGED replaced
    /\ UNCHANGED <<connections, mainPc, loopIdx, tickCalls>>
    /\ UNCHANGED <<parser, callers, loops, loop_handle, counter, scheduler>>
    /\ UNCHANGED cvars
    /\ UNCHANGED gvars

\* DAQEngine.destroy(): stop(), destroy() of every component of the dict,
\* and both tables cleared
ReplDestroy ==
    /\ components' = <<>>
    /\ connections' = <<>>
    /\ is_running' = FALSE
    /\ stop_event' = IF is_running THEN TRUE ELSE stop_event
    /\ loopPc' = IF is_running THEN "none" ELSE loopPc
    /\ eret' = [op |-> "destroy", was_running |-> is_running]
    /\ UNCHANGED replaced
    /\ UNCHANGED <<mainPc, loopIdx, tickCalls>>
    /\ UNCHANGED <<parser, callers, loops, loop_handle, counter, scheduler>>
    /\ UNCHANGED cvars
    /\ UNCHANGED gvars

NextReplace ==
    \/ ReplAddComponent
    \/ ReplConnect
    \/ WorkerPublish
    \/ ReplStart
    \/ ReplTick
    \/ ReplStop
    \/ ReplDestroy

SpecReplace == InitEngine /\ [][NextReplace]_vars

\* ------------------------------------------------------ CounterComponent
\* One CounterComponent, driven the way the tests drive it: configure(),
\* start(), set_value() on its input ports, process(), stop().  A boolean
\* input is 1 or 0, a port that was never written holds None.  min_value
\* and max_value of the configurations are None or not negative, so that
\* None stands for "no limit" only.  ret.before keeps _value and the two
\* edge flags as they were when process() was called.
MaxCounterValue == 5

CounterConfigs ==
    {c \in [initial_value : {0, 2}, step : {1, 2},
            min_value : {None, 0}, max_value : {None, 3}] :
        (c.min_value = None) = (c.max_value = None)}

CounterInputValues(port) ==
    CASE port = "increment" -> {None, 0, 1}
      [] port = "decrement" -> {None, 1}
      [] port = "reset"     -> {None, 1}
      [] port = "set_value" -> {None, 0, 5}

CounterInputPorts == {"increment", "decrement", "reset", "set_value"}

\* the truth value Python gives an input
Truthy(v) == v # None /\ v # 0

\* the output ports before the first process()
NoOutputs == [produced |-> FALSE]

\* CounterComponent(instance_id) followed by configure(config)
ConfiguredCounter(config) ==
    [built |-> TRUE, running |-> FALSE,
     initial_value |-> config.initial_value, step |-> config.step,
     min_value |-> config.min_value, max_value |-> config.max_value,
     value |-> config.initial_value,
     prev_increment |-> FALSE, prev_decrement |-> FALSE,
     inp |-> [p \in CounterInputPorts |-> None],
     out |-> NoOutputs]

\* a counter that counts while the signal is high
RisingEdgeLevel(signal, prev) == Truthy(signal)

\* `increment and not self._prev_increment`
RisingEdge(signal, prev) == Truthy(signal) /\ ~prev

\* the two limit tests of process(): `> max_value` after an increment,
\* `< min_value` after a decrement; either limit may be None
Clamp(v, lo, hi) ==
    IF hi # None /\ v > hi THEN hi
    ELSE IF lo # None /\ v < lo THEN lo
    ELSE v

\* _value after the reset test and the set_value test of process(); the
\* values written to set_value are integers, which int() returns as they are
AfterResetAndSet(c) ==
    LET v1 == IF Truthy(c.inp["reset"]) THEN c.initial_value ELSE c.value
    IN IF c.inp["set_value"] # None THEN c.inp["set_value"] ELSE v1

\* CounterComponent.process()
CounterProcessResult(c) ==
    LET v2 == AfterResetAndSet(c)
        v3 == IF RisingEdge(c.inp["increment"], c.prev_increment)
              THEN Clamp(v2 + c.step, None, c.max_value) ELSE v2
        v4 == IF RisingEdge(c.inp["decrement"], c.prev_decrement)
              THEN Clamp(v3 - c.step, c.min_value, None) ELSE v3
    IN [c EXCEPT !.value = v4,
                 !.prev_increment = Truthy(c.inp["increment"]),
                 !.prev_decrement = Truthy(c.inp["decrement"]),
                 !.out = [produced |-> TRUE, value |-> v4,
                          at_min |-> c.min_value # None /\ v4 <= c.min_value,
                          at_max |-> c.max_value # None /\ v4 >= c.max_value]]

\* what the actions of this section leave alone
CounterFrame ==
    /\ UNCHANGED <<nodes, wires, topo, doc, node_attrs, generator>>
    /\ UNCHANGED <<parser, replaced, callers, loops, loop_handle, scheduler>>
    /\ UNCHANGED evars
    /\ UNCHANGED gvars

\* the constructor and configure(config); a configure() on an existing
\* counter sets the same fields again
CounterConfigure ==
    /\ ~counter.built
    /\ \E config \in CounterConfigs : counter' = ConfiguredCounter(config)
    /\ ret' = [op |-> "configure"]
    /\ CounterFrame

\* CounterComponent.start()
CounterStart ==
    /\ counter.built
    /\ counter' = [counter EXCEPT !.running = TRUE, !.value = counter.initial_value]
    /\ ret' = [op |-> "start"]
    /\ CounterFrame

\* CounterComponent.stop()
CounterStop ==
    /\ counter.built /\ counter.running
    /\ counter' = [counter EXCEPT !.running = FALSE]
    /\ ret' = [op |-> "stop"]
    /\ CounterFrame

\* input_ports[port].set_value(v)
CounterSetInput ==
    /\ counter.built
    /\ \E port \in CounterInputPorts : \E v \in CounterInputValues(port) :
          counter' = [counter EXCEPT !.inp[port] = v]
    /\ ret' = [op |-> "set_input"]
    /\ CounterFrame

\* CounterComponent.process()
CounterProcess ==
    /\ counter.built
    /\ LET after == CounterProcessResult(counter)
       IN /\ after.value \in (0 - MaxCounterValue)..MaxCounterValue
          /\ counter' = after
    /\ ret' = [op |-> "process",
               before |-> [value |-> counter.value,
                           prev_increment |-> counter.prev_increment,
                           prev_decrement |-> counter.prev_decrement,
                           running |-> counter.running]]
    /\ CounterFrame

InitCounter ==
    /\ nodes = <<>>
    /\ wires = <<>>
    /\ topo = TopoInit
    /\ ret = NoRet
    /\ doc = NoDoc
    /\ node_attrs = <<>>
    /\ generator = NoGenerator
    /\ ObjectsInit
    /\ EngineInit

NextCounter ==
    \/ CounterConfigure
    \/ CounterStart
    \/ CounterStop
    \/ CounterSetInput
    \/ CounterProcess

SpecCounter == InitCounter /\ [][NextCounter]_vars

\* --------------------------------------------------------- TaskScheduler
\* One TaskScheduler whose thread runs _scheduler_loop while the API thread
\* creates tasks of the three queued trigger types.  Task ids are 1, 2, ..
\* in the order of creation.  Times are counted in waits of the loop and
\* kept relative to the loop's clock: an entry of the queue holds the
\* number of waits until its next_run, 0 when it is due.  The queue is kept
\* in the order of the heap, smallest entry first.  An action of a task
\* may raise at any of its runs.  The scheduler is not stopped here and no
\* task is cancelled or paused.
MaxTasks == 2
MaxRetries == 2
SchedTaskIds == 1..MaxTasks
QueuedTriggerTypes == {"immediate", "scheduled", "interval"}

\* the task parameters explored: config["run_at"] of a SCHEDULED task is
\* now or two waits ahead, config["interval_ms"] of an INTERVAL task is one
\* wait
TaskParams ==
    [trigger_type : QueuedTriggerTypes, max_retries : 0..MaxRetries,
     run_at : {0, 2}, priority : {5}]

\* TaskScheduler.__init__
NewScheduler ==
    [built |-> TRUE, tasks |-> <<>>, task_queue |-> <<>>,
     pc |-> "none", stop_event |-> FALSE, current |-> 0]

\* the Task dataclass as create_task builds it; has_run tells last_run # 0
Task(p) ==
    [trigger_type |-> p.trigger_type, state |-> "pending", enabled |-> TRUE,
     priority |-> p.priority, max_retries |-> p.max_retries,
     retry_count |-> 0, has_run |-> FALSE, run_at |-> p.run_at,
     interval |-> 1]

\* _calculate_next_run for the queued trigger types, in waits from now
_calculate_next_run(task) ==
    CASE task.trigger_type = "immediate" -> 0
      [] task.trigger_type = "scheduled" -> task.run_at
      [] task.trigger_type = "interval" ->
             IF ~task.has_run THEN 0 ELSE task.interval

\* the order of the tuples (next_run, priority, task_id)
EntryLess(a, b) ==
    \/ a[1] < b[1]
    \/ a[1] = b[1] /\ a[2] < b[2]
    \/ a[1] = b[1] /\ a[2] = b[2] /\ a[3] < b[3]

\* heapq.heappush
heappush(queue, entry) ==
    LET before == SelectSeq(queue, LAMBDA e : ~EntryLess(entry, e))
        after == SelectSeq(queue, LAMBDA e : EntryLess(entry, e))
    IN before \o <<entry>> \o after

\* the end of _execute_task: a periodic task that is enabled is pushed
\* again, a task of another type is not
Reschedule(queue, task, id) ==
    IF task.trigger_type = "interval" /\ task.enabled
    THEN heappush(queue, <<_calculate_next_run(task), task.priority, id>>)
    ELSE queue

\* the try/except of _execute_task on a task whose action raises or
\* returns
AfterAction(task, raises) ==
    IF ~raises
    THEN [task EXCEPT !.state = "completed", !.retry_count = 0]
    ELSE IF task.retry_count < task.max_retries
         THEN [task EXCEPT !.state = "pending", !.retry_count = @ + 1]
         ELSE [task EXCEPT !.state = "failed"]

\* one wait of the loop: every entry that is not due comes one wait closer
AfterWait(queue) ==
    [k \in DOMAIN queue |->
        <<IF queue[k][1] > 0 THEN queue[k][1] - 1 ELSE 0,
          queue[k][2], queue[k][3]>>]

\* what the actions of this section leave alone
SchedFrame ==
    /\ UNCHANGED <<parser, replaced, callers, loops, loop_handle, counter>>
    /\ UNCHANGED cvars
    /\ UNCHANGED evars
    /\ UNCHANGED gvars

\* TaskScheduler.create_task(name, action, trigger_type, config, priority,
\* max_retries)
SchedCreateTask ==
    /\ Len(scheduler.tasks) < MaxTasks
    /\ \E p \in TaskParams :
          /\ p.trigger_type # "scheduled" => p.run_at = 0
          /\ LET task == Task(p)
                 task_id == Len(scheduler.tasks) + 1
             IN scheduler' =
                  [scheduler EXCEPT
                     !.tasks = Append(@, task),
                     !.task_queue = heappush(@, <<_calculate_next_run(task),
                                                  task.priority, task_id>>)]
    /\ SchedFrame

\* TaskScheduler.start(): returns when the thread is alive, else starts it
SchedStart ==
    /\ scheduler.pc = "none"
    /\ scheduler' = [scheduler EXCEPT !.pc = "top", !.stop_event = FALSE]
    /\ SchedFrame

\* _scheduler_loop: the while test and now = time.time()
SchedLoopTop ==
    /\ scheduler.pc = "top"
    /\ ~scheduler.stop_event
    /\ scheduler' = [scheduler EXCEPT !.pc = "drain"]
    /\ SchedFrame

\* _scheduler_loop: one pass of `while self._task_queue`.  An entry that is
\* due is popped and, when its task is enabled, _execute_task runs up to
\* the call of the action; when no entry is due the loop waits
SchedLoopDrain ==
    /\ scheduler.pc = "drain"
    /\ IF scheduler.task_queue # <<>> /\ Head(scheduler.task_queue)[1] <= 0
       THEN LET task_id == Head(scheduler.task_queue)[3]
            IN IF task_id \in DOMAIN scheduler.tasks
                  /\ scheduler.tasks[task_id].enabled
               THEN scheduler' =
                      [scheduler EXCEPT
                         !.task_queue = Tail(@),
                         !.tasks[task_id].state = "running",
                         !.tasks[task_id].has_run = TRUE,
                         !.current = task_id,
                         !.pc = "exec"]
               ELSE scheduler' = [scheduler EXCEPT !.task_queue = Tail(@)]
       ELSE scheduler' = [scheduler EXCEPT !.task_queue = AfterWait(@),
                                           !.pc = "top"]
    /\ SchedFrame

\* _execute_task from the call of the action to its end
SchedExecuteEnd ==
    /\ scheduler.pc = "exec"
    /\ \E raises \in BOOLEAN :
          LET id == scheduler.current
              task == AfterAction(scheduler.tasks[id], raises)
          IN scheduler' =
               [scheduler EXCEPT
                  !.tasks[id] = task,
                  !.task_queue = Reschedule(@, task, id),
                  !.current = 0,
                  !.pc = "drain"]
    /\ SchedFrame

InitScheduler ==
    /\ nodes = <<>>
    /\ wires = <<>>
    /\ topo = TopoInit
    /\ ret = NoRet
    /\ doc = NoDoc
    /\ node_attrs = <<>>
    /\ generator = NoGenerator
    /\ parser = NewParser
    /\ replaced = <<>>
    /\ callers = NoCallers
    /\ loops = NoLoops
    /\ loop_handle = NoThread
    /\ counter = NoCounter
    /\ scheduler = NewScheduler
    /\ EngineInit

NextScheduler ==
    \/ SchedCreateTask
    \/ SchedStart
    \/ SchedLoopTop
    \/ SchedLoopDrain
    \/ SchedExecuteEnd

SpecScheduler == InitScheduler /\ [][NextScheduler]_vars

\* the scheduler thread keeps running its loop, and an action of a task
\* ends
SchedulerFairness ==
    /\ WF_vars(SchedLoopTop)
    /\ WF_vars(SchedLoopDrain)
    /\ WF_vars(SchedExecuteEnd)

SpecSchedulerFair == SpecScheduler /\ SchedulerFairness

\* ------------------------------------------------- the generated program
\* A typed project: nodes are records [id, type], wires are Wire records.
\* The documents explored wire an output of the source node to the input
\* `input1` of the target node.
NodeIdsOf(ns) == [i \in DOMAIN ns |-> ns[i].id]

\* NODE_TYPE_MAPPING.get(node.type, "Unknown")
NODE_TYPE_MAPPING(type) ==
    CASE type = "daq:mock_device"    -> "MockDevice"
      [] type = "daq:mqtt_subscribe" -> "MQTTSubscriber"
      [] type = "daq:mqtt_publish"   -> "MQTTPublisher"
      [] type = "daq:math"           -> "MathOperation"
      [] type = "daq:compare"        -> "Compare"
      [] type = "daq:scale"          -> "MathOperation"
      [] type = "daq:custom_script"  -> "CustomScript"
      [] type = "daq:csv_write"      -> "CSVStorage"
      [] type = "daq:csv_storage"    -> "CSVStorage"
      [] OTHER                       -> "Unknown"

\* A properties bag and a generated config are dicts: sets of <<key, value>>
\* pairs with one pair per key.  A value is a string that stands for the
\* JSON value.
HasKey(props, key) == \E p \in props : p[1] = key

\* a default that replaces the value the bag has: props[key] = value
SetItem(props, key, value) ==
    {p \in props : p[1] # key} \cup {<<key, value>>}

\* dict.setdefault(key, value)
setdefault(props, key, value) ==
    IF HasKey(props, key) THEN props ELSE props \cup {<<key, value>>}

\* dict.pop(key, None)
pop(props, key) == {p \in props : p[1] # key}

\* setdefault for each <<key, value>> of a list of defaults, in order
RECURSIVE SetDefaults(_, _)
SetDefaults(props, defaults) ==
    IF defaults = <<>> THEN props
    ELSE SetDefaults(setdefault(props, Head(defaults)[1], Head(defaults)[2]),
                     Tail(defaults))

\* the defaults _convert_node_properties has for a node type
TypeDefaults(type) ==
    CASE type = "daq:mqtt_subscribe" ->
             <<<<"broker_host", "localhost">>, <<"broker_port", "1883">>,
               <<"topic", "sensors/#">>>>
      [] type = "daq:mqtt_publish" ->
             <<<<"broker_host", "localhost">>, <<"broker_port", "1883">>,
               <<"topic", "output/data">>>>
      [] type = "daq:mock_device" ->
             <<<<"broker_host", "localhost">>, <<"broker_port", "1883">>,
               <<"topic", "sensors/mock">>, <<"wave_type", "sine">>,
               <<"interval_ms", "1000">>>>
      [] type \in {"daq:math", "daq:scale"} ->
             <<<<"operation", "scale">>, <<"scale", "1.0">>, <<"offset", "0">>>>
      [] type \in {"daq:csv_write", "daq:csv_storage"} ->
             <<<<"file_path", "./data/output.csv">>,
               <<"include_timestamp", "True">>>>
      [] type = "daq:custom_script" -> <<<<"generatedCode", "">>>>
      [] OTHER -> <<>>

\* _convert_node_properties: the config emitted for a node
_convert_node_properties(node) ==
    LET props == SetDefaults(node.properties, TypeDefaults(node.type))
    IN IF node.type = "daq:custom_script" THEN pop(props, "blocklyXml") ELSE props

\* the sorted_nodes handed to CodeGenerator: sort() of the project
SortedNodeList(ns, ws) ==
    IF ns = <<>> THEN <<>>
    ELSE LET ids == NodeIdsOf(ns)
             idx == SortedNodes(ids, SortRun(ids, ws).result)
         IN [k \in DOMAIN idx |-> ns[idx[k]]]

\* an import statement with an entry for every node, whatever its type
GenerateImportsWithUnknown(sorted) ==
    {NODE_TYPE_MAPPING(sorted[k].type) : k \in DOMAIN sorted}

\* _generate_imports: the component classes named in the import statement
GenerateImports(sorted) ==
    {NODE_TYPE_MAPPING(sorted[k].type) : k \in DOMAIN sorted} \ {"Unknown"}

\* _generate_components: one statement per node, in the order of sorted_nodes
GenerateComponents(sorted) ==
    [k \in DOMAIN sorted |->
        LET comp_name == NODE_TYPE_MAPPING(sorted[k].type)
        IN IF comp_name = "Unknown"
           THEN [stmt |-> "warning", type |-> sorted[k].type, id |-> sorted[k].id]
           ELSE [stmt |-> "add_component", type |-> comp_name, id |-> sorted[k].id,
                 config |-> _convert_node_properties(sorted[k])]]

\* the output port the documents wire from, per component class
WiredOutput(ns, id) ==
    LET i == get_node(NodeIdsOf(ns), id)
    IN IF i = 0 THEN "data"
       ELSE IF NODE_TYPE_MAPPING(ns[i].type) = "MathOperation" THEN "result"
       ELSE IF NODE_TYPE_MAPPING(ns[i].type) = "MockDevice" THEN "value"
       ELSE "data"

\* wire.source.port_id and wire.target.port_id; a wire written without its
\* ports stands for a wire between the ports the documents wire
source_port_id(ns, w) ==
    IF "source_port" \in DOMAIN w THEN w.source_port ELSE WiredOutput(ns, w.source)

target_port_id(w) ==
    IF "target_port" \in DOMAIN w THEN w.target_port ELSE "input1"

\* an engine.connect statement per wire, last wire first
GenerateConnectionsReversed(ns, ws) ==
    [k \in DOMAIN ws |->
        LET w == ws[Len(ws) + 1 - k]
        IN Connection(w.source, source_port_id(ns, w), w.target, target_port_id(w))]

\* _generate_connections: one engine.connect statement per wire
GenerateConnections(ns, ws) ==
    [k \in DOMAIN ws |->
        Connection(ws[k].source, source_port_id(ns, ws[k]),
                   ws[k].target, target_port_id(ws[k]))]

\* the targets one generated on_<node>_message handler feeds: the outgoing
\* wires of the node whose target is a node of the project
RECURSIVE HandlerTargets(_, _, _)
HandlerTargets(ns, ws, node_id) ==
    IF ws = <<>> THEN <<>>
    ELSE IF Head(ws).source = node_id /\ get_node(NodeIdsOf(ns), Head(ws).target) # 0
         THEN <<[id |-> Head(ws).target, port |-> target_port_id(Head(ws))]>>
                  \o HandlerTargets(ns, Tail(ws), node_id)
         ELSE HandlerTargets(ns, Tail(ws), node_id)

\* _generate_callbacks: a handler for every daq:mqtt_subscribe node that has
\* outgoing wires
RECURSIVE GenerateCallbacks(_, _, _)
GenerateCallbacks(sorted, ns, ws) ==
    IF sorted = <<>> THEN <<>>
    ELSE LET node == Head(sorted)
             rest == GenerateCallbacks(Tail(sorted), ns, ws)
         IN IF /\ node.type = "daq:mqtt_subscribe"
               /\ \E k \in DOMAIN ws : ws[k].source = node.id
            THEN <<[source |-> node.id,
                    targets |-> HandlerTargets(ns, ws, node.id)]>> \o rest
            ELSE rest

\* CodeGenerator.generate: the parts of the program that depend on the project
Generate(ns, ws) ==
    LET sorted == SortedNodeList(ns, ws)
    IN [imports     |-> GenerateImports(sorted),
        components  |-> GenerateComponents(sorted),
        connections |-> GenerateConnections(ns, ws),
        callbacks   |-> GenerateCallbacks(sorted, ns, ws)]

\* ------------------------------------------- the lines generate() emits
\* A line of _output_lines is a record whose `stmt` names the statement; a
\* run of lines whose text is the same for every project is one "text"
\* record.
Text(part) == [stmt |-> "text", part |-> part]

\* sorted(used_components): the component class names in string order
ComponentOrder ==
    <<"CSVStorage", "Compare", "CustomScript", "MQTTPublisher", "MQTTSubscriber",
      "MathOperation", "MockDevice">>

\* _generate_header: the banner, with the line of datetime.now()
GenerateHeaderLines(now) ==
    <<Text("banner"), [stmt |-> "timestamp", time |-> now], Text("banner_end")>>

\* _generate_imports: the fixed imports and a line per used component class
GenerateImportLines(sorted) ==
    LET used == SelectSeq(ComponentOrder, LAMBDA c : c \in GenerateImports(sorted))
    IN <<Text("imports")>>
         \o [k \in DOMAIN used |-> [stmt |-> "import", name |-> used[k]]]
         \o <<Text("imports_end")>>

\* _generate_engine_setup
GenerateEngineSetupLines == <<Text("create_engine")>>

\* _generate_connections: the connect lines and `return engine`
GenerateConnectionLines(ns, ws) ==
    LET cs == GenerateConnections(ns, ws)
    IN [k \in DOMAIN cs |-> [stmt |-> "connect", connection |-> cs[k]]]
         \o <<Text("return_engine")>>

\* _generate_callbacks: setup_callbacks(engine) with a handler and its
\* set_message_callback registration per entry of GenerateCallbacks
GenerateCallbackLines(sorted, ns, ws) ==
    IF \E k \in DOMAIN sorted : sorted[k].type = "daq:mqtt_subscribe"
    THEN LET hs == GenerateCallbacks(sorted, ns, ws)
         IN <<Text("setup_callbacks")>>
              \o [k \in DOMAIN hs |->
                     [stmt |-> "handler", source |-> hs[k].source,
                      targets |-> hs[k].targets]]
    ELSE <<>>

\* _generate_main
GenerateMainLines(sorted) ==
    <<Text("main")>>
      \o (IF \E k \in DOMAIN sorted : sorted[k].type = "daq:mqtt_subscribe"
          THEN <<Text("call_setup_callbacks")>> ELSE <<>>)
      \o <<Text("run")>>

\* the lines one generate() call appends, in the order of its seven steps
GeneratedLines(sorted, ns, ws, now) ==
    GenerateHeaderLines(now)
      \o GenerateImportLines(sorted)
      \o GenerateEngineSetupLines
      \o GenerateComponents(sorted)
      \o GenerateConnectionLines(ns, ws)
      \o GenerateCallbackLines(sorted, ns, ws)
      \o GenerateMainLines(sorted)

\* generate() that appends to the lines of the call before
GenerateLinesKept(output_lines, sorted, ns, ws, now) ==
    output_lines \o GeneratedLines(sorted, ns, ws, now)

\* generate(): _output_lines.clear(), then the seven steps
GenerateLines(output_lines, sorted, ns, ws, now) ==
    GeneratedLines(sorted, ns, ws, now)

\* ------------------------------------------- a CodeGenerator on a project
\* The project is `nodes` (the ids), `wires` and `node_attrs` (the type and
\* the properties bag of each node); `generator` is a CodeGenerator object.
MaxCgNodes == 2
MaxCgWires == 2
CgNodeIds == {1, 2}

\* the instants datetime.now() can return
Times == {1, 2}

\* a type and a properties bag of a node of the project
CgAttrs ==
    {[type |-> "daq:mqtt_subscribe",
      properties |-> {<<"topic", "plant/#">>, <<"qos", "1">>}],
     [type |-> "daq:mock_device", properties |-> {<<"broker_port", "1884">>}],
     [type |-> "daq:csv_storage",
      properties |-> {<<"include_timestamp", "False">>}],
     [type |-> "daq:custom_script",
      properties |-> {<<"generatedCode", "output = input1 * 2">>,
                      <<"blocklyXml", "<xml/>">>}],
     [type |-> "daq:debug_print", properties |-> {<<"prefix", "dbg">>}]}

\* the wires of the project, with the ports they name
CgWires ==
    {[source |-> s, target |-> t, source_port |-> p[1], target_port |-> p[2]] :
        s \in CgNodeIds, t \in CgNodeIds,
        p \in {<<"data", "input1">>, <<"value", "input2">>}}

\* project.nodes: the Node objects
ProjectNodes(ns, attrs) ==
    [i \in DOMAIN ns |->
        [id |-> ns[i], type |-> attrs[i].type, properties |-> attrs[i].properties]]

\* the Node objects of a list of positions of project.nodes
NodesAt(ns, attrs, idx) ==
    [k \in DOMAIN idx |-> ProjectNodes(ns, attrs)[idx[k]]]

\* node.properties after a _convert_node_properties that fills the node's
\* own dict
properties_aliased(node) == _convert_node_properties(node)

\* node.properties after _convert_node_properties: props is a copy, the
\* node's own dict is as before
properties_kept(node) == node.properties

\* the properties of every node after generate(): _convert_node_properties
\* has run for each node of sorted_nodes that has a known type
AttrsAfterGenerate(ns, attrs, idx) ==
    [i \in DOMAIN attrs |->
        IF /\ \E k \in DOMAIN idx : idx[k] = i
           /\ NODE_TYPE_MAPPING(attrs[i].type) # "Unknown"
        THEN [attrs[i] EXCEPT
                 !.properties = properties_kept(ProjectNodes(ns, attrs)[i])]
        ELSE attrs[i]]

\* a project of nodes with distinct ids
InitCodegen ==
    /\ \E ns \in SeqsUpTo(CgNodeIds \X CgAttrs, MaxCgNodes) :
          /\ \A i, j \in DOMAIN ns : ns[i][1] = ns[j][1] => i = j
          /\ nodes = [i \in DOMAIN ns |-> ns[i][1]]
          /\ node_attrs = [i \in DOMAIN ns |-> ns[i][2]]
    /\ wires \in SeqsUpTo(CgWires, MaxCgWires)
    /\ topo = TopoInit
    /\ ret = NoRet
    /\ doc = NoDoc
    /\ generator = NoGenerator
    /\ ObjectsInit
    /\ EngineInit

\* CodeGenerator(project, sorted_nodes) with the node list the sorter of the
\* project holds: what its last sort() returned, or [] before a sort()
NewGenerator ==
    /\ generator' = [built |-> TRUE, sorted_nodes |-> topo.sorted_nodes,
                     output_lines |-> <<>>]
    /\ UNCHANGED <<nodes, wires, topo, ret, doc, node_attrs>>
    /\ UNCHANGED evars
    /\ UNCHANGED gvars
    /\ UNCHANGED ovars

\* CodeGenerator.generate(); `before` is what the caller holds of the
\* generate() call just before this one, if there was one: the text it
\* returned and the node list of its generator
GenerateCall ==
    /\ generator.built
    /\ \E now \in Times :
         LET sorted == NodesAt(nodes, node_attrs, generator.sorted_nodes)
             lines == GenerateLines(generator.output_lines, sorted,
                                    ProjectNodes(nodes, node_attrs), wires, now)
         IN /\ generator' = [generator EXCEPT !.output_lines = lines]
            /\ ret' = [op |-> "generate", raised |-> FALSE, lines |-> lines,
                       sorted_nodes |-> generator.sorted_nodes,
                       before |-> IF ret.op = "generate"
                                  THEN <<[lines |-> ret.lines,
                                          sorted_nodes |-> ret.sorted_nodes]>>
                                  ELSE <<>>]
    /\ node_attrs' = AttrsAfterGenerate(nodes, node_attrs, generator.sorted_nodes)
    /\ UNCHANGED <<nodes, wires, topo, doc>>
    /\ UNCHANGED evars
    /\ UNCHANGED gvars
    /\ UNCHANGED ovars

NextCodegen ==
    \/ Sort
    \/ ValidateConnections
    \/ ExecutionLevels
    \/ SourceNodes
    \/ SinkNodes
    \/ NewGenerator
    \/ GenerateCall

SpecCodegen == InitCodegen /\ [][NextCodegen]_vars

\* create_engine() of the generated program: the add_component statements
\* run in order (every generated config holds the defaults of its node type)
RECURSIVE RunComponents(_, _)
RunComponents(stmts, comps) ==
    IF stmts = <<>> THEN comps
    ELSE RunComponents(Tail(stmts),
             IF Head(stmts).stmt = "add_component"
             THEN AddComponentResult(comps, Head(stmts).type, Head(stmts).id,
                                     TRUE).components
             ELSE comps)

\* the projects whose generated program is run
MaxGenNodes == 2
MaxGenWires == 1
GenNodeIds == {1, 2}
GenNodeTypes == {"daq:mqtt_subscribe", "daq:math"}

GenProjects ==
    {pr \in [nodes : SeqsUpTo([id : GenNodeIds, type : GenNodeTypes,
                                properties : {{}}], MaxGenNodes),
             wires : SeqsUpTo(WiresOver(GenNodeIds), MaxGenWires)] :
        /\ pr.nodes # <<>>
        /\ CompileStages(NodeIdsOf(pr.nodes), pr.wires) = "generate"}

\* no message is being handled
HandlerIdle == [k |-> 0, value |-> None]

\* the thread of _main_loop, as the `thread` of an entry of `active`; the
\* network thread of a subscriber is named by the subscriber's instance id
LoopThread == 0

\* main() of the generated program up to engine.start(): create_engine()
\* and setup_callbacks(engine) have run
InitGenerated ==
    \E pr \in GenProjects :
        LET program == Generate(pr.nodes, pr.wires)
        IN /\ nodes = NodeIdsOf(pr.nodes)
           /\ wires = pr.wires
           /\ topo = TopoInit
           /\ ret = NoRet
           /\ doc = NoDoc
           /\ node_attrs = <<>>
           /\ generator = NoGenerator
           /\ ObjectsInit
           /\ components = RunComponents(program.components, <<>>)
           /\ connections = program.connections
           /\ callbacks = program.callbacks
           /\ handler = [i \in DOMAIN components |-> HandlerIdle]
           /\ active = {}
           /\ mainOp = "none"
           /\ mainIdx = 0
           /\ is_running = FALSE
           /\ stop_event = FALSE
           /\ mainPc = "idle"
           /\ loopPc = "none"
           /\ loopIdx = 0
           /\ tickCalls = <<>>
           /\ eret = [op |-> "none"]

\* what a process() call that read `inputs` on entry leaves in the component
ProcessWith(c, inputs, generated) ==
    [c EXCEPT !.out = Process([c EXCEPT !.inp = inputs], generated).out]

\* _main_loop: one iteration of the for loop, up to the entry into
\* component.process()
LoopProcessCall ==
    /\ loopPc = "process"
    /\ IF loopIdx > Len(components)
       THEN /\ loopPc' = "wait"
            /\ loopIdx' = 0
            /\ UNCHANGED <<tickCalls, active>>
       ELSE LET c == components[loopIdx]
            IN IF ShouldProcess(c)
               THEN /\ tickCalls' = Append(tickCalls, [id |-> c.id, name |-> c.name])
                    /\ active' = active \cup
                          {[thread |-> LoopThread, id |-> c.id, inputs |-> c.inp]}
                    /\ loopPc' = "in_process"
                    /\ UNCHANGED loopIdx
               ELSE /\ loopIdx' = loopIdx + 1
                    /\ UNCHANGED <<tickCalls, active, loopPc>>
    /\ UNCHANGED <<components, connections, is_running, stop_event, mainPc, eret,
                   callbacks, handler>>
    /\ UNCHANGED <<mainOp, mainIdx>>
    /\ UNCHANGED cvars
    /\ UNCHANGED ovars

\* _main_loop: component.process() returns or raises
LoopProcessReturn ==
    /\ loopPc = "in_process"
    /\ \E a \in active :
          /\ a.thread = LoopThread
          /\ active' = active \ {a}
          /\ LET c == components[loopIdx]
             IN IF ProcessRaises(c)
                THEN /\ loopPc' = "wait"
                     /\ loopIdx' = 0
                     /\ UNCHANGED components
                ELSE /\ \E generated \in Generated(c) :
                            components' = [components EXCEPT
                                ![loopIdx] = ProcessWith(c, a.inputs, generated)]
                     /\ loopIdx' = loopIdx + 1
                     /\ loopPc' = "process"
    /\ UNCHANGED <<connections, is_running, stop_event, mainPc, tickCalls, eret,
                   callbacks, handler>>
    /\ UNCHANGED <<mainOp, mainIdx>>
    /\ UNCHANGED cvars
    /\ UNCHANGED ovars

\* the callback registered on the subscriber, <<>> when there is none
CallbackOf(instance_id) ==
    IF \E k \in DOMAIN callbacks : callbacks[k].source = instance_id
    THEN (CHOOSE k \in DOMAIN callbacks : callbacks[k].source = instance_id)
    ELSE 0

\* MQTTSubscriberComponent._on_message on the network thread of the i-th
\* component: the outputs are set, then the registered callback is entered
OnMessage(i, v) ==
    /\ components[i].name = "MQTTSubscriber"
    /\ components[i].worker
    /\ handler[i] = HandlerIdle
    /\ components' = [components EXCEPT ![i].out["data"] = v]
    /\ handler' = [handler EXCEPT ![i] =
                      IF CallbackOf(components[i].id) = 0 THEN HandlerIdle
                      ELSE [k |-> 1, value |-> v]]
    /\ UNCHANGED <<connections, is_running, stop_event, mainPc, loopPc, loopIdx,
                   tickCalls, eret, callbacks, active>>
    /\ UNCHANGED <<mainOp, mainIdx>>
    /\ UNCHANGED cvars
    /\ UNCHANGED ovars

\* the generated handler, for its k-th target: get_component, set_value on
\* the target's input port and the entry into target.process(); a missing
\* port raises KeyError, which _on_message catches
HandlerCall(i) ==
    /\ handler[i].k > 0
    /\ ~\E a \in active : a.thread = components[i].id
    /\ LET targets == callbacks[CallbackOf(components[i].id)].targets
           k == handler[i].k
       IN IF k > Len(targets)
          THEN /\ handler' = [handler EXCEPT ![i] = HandlerIdle]
               /\ UNCHANGED <<components, active>>
          ELSE LET t == IndexOfId(components, targets[k].id)
               IN IF t = 0
                  THEN /\ handler' = [handler EXCEPT ![i].k = k + 1]
                       /\ UNCHANGED <<components, active>>
                  ELSE IF targets[k].port \notin DOMAIN components[t].inp
                  THEN /\ handler' = [handler EXCEPT ![i] = HandlerIdle]
                       /\ UNCHANGED <<components, active>>
                  ELSE /\ components' = [components EXCEPT
                              ![t].inp[targets[k].port] = handler[i].value]
                       /\ active' = active \cup
                              {[thread |-> components[i].id,
                                id     |-> targets[k].id,
                                inputs |-> components'[t].inp]}
                       /\ UNCHANGED handler
    /\ UNCHANGED <<connections, is_running, stop_event, mainPc, loopPc, loopIdx,
                   tickCalls, eret, callbacks>>
    /\ UNCHANGED <<mainOp, mainIdx>>
    /\ UNCHANGED cvars
    /\ UNCHANGED ovars

\* the generated handler: target.process() returns, or raises into the
\* except clause of _on_message
HandlerReturn(i) ==
    /\ \E a \in active :
          /\ a.thread = components[i].id
          /\ active' = active \ {a}
          /\ LET t == IndexOfId(components, a.id)
                 c == components[t]
             IN IF ProcessRaises(c)
                THEN /\ handler' = [handler EXCEPT ![i] = HandlerIdle]
                     /\ UNCHANGED components
                ELSE /\ \E generated \in Generated(c) :
                            components' = [components EXCEPT
                                ![t] = ProcessWith(c, a.inputs, generated)]
                     /\ handler' = [handler EXCEPT ![i].k = handler[i].k + 1]
    /\ UNCHANGED <<connections, is_running, stop_event, mainPc, loopPc, loopIdx,
                   tickCalls, eret, callbacks>>
    /\ UNCHANGED <<mainOp, mainIdx>>
    /\ UNCHANGED cvars
    /\ UNCHANGED ovars

\* the network threads of the subscribers
MqttThread ==
    \E i \in DOMAIN components :
        \/ \E v \in Values : OnMessage(i, v)
        \/ HandlerCall(i)
        \/ HandlerReturn(i)

NextGenerated ==
    \/ Start
    \/ TickBegin
    \/ LoopProcessCall
    \/ LoopProcessReturn
    \/ MqttThread

SpecGenerated == InitGenerated /\ [][NextGenerated]_vars

\* ------------------------------------------------------- DAQProjectParser
\* A document (the dict handed to parse_dict): the top-level keys it has and,
\* per section, what the parser reads.  A device records whether its dict
\* has the key "protocol", a widget whether it has "layout" and "label";
\* a node carries its id and type, a wire the nodeId of source and target.
MaxDocNodes == 2
MaxDocWires == 2
MaxDocItems == 1
DocNodeIds == {1, 2}
DocNodeTypes == {"daq:mock_device", "daq:math", "daq:debug_print"}

required_fields == <<"meta", "devices", "logic", "ui">>

\* a document that lacks a section has none of its entries
Documents ==
    {d \in [sections : SUBSET Range(required_fields),
            devices  : SeqsUpTo([protocol : BOOLEAN], MaxDocItems),
            nodes    : SeqsUpTo([id : DocNodeIds, type : DocNodeTypes], MaxDocNodes),
            wires    : SeqsUpTo(WiresOver(DocNodeIds), MaxDocWires),
            widgets  : SeqsUpTo([layout : BOOLEAN, label : BOOLEAN], MaxDocItems)] :
        /\ "devices" \notin d.sections => d.devices = <<>>
        /\ "logic" \notin d.sections => (d.nodes = <<>> /\ d.wires = <<>>)
        /\ "ui" \notin d.sections => d.widgets = <<>>}

\* dict.get(key, default) on an item of the document
DictGet(item, key, default) == IF key \in DOMAIN item THEN item[key] ELSE default

\* a node item with the given optional keys; its type is a known one
NodeItem(id, keys) ==
    [k \in {"id", "type"} \cup keys |->
        CASE k = "id"         -> id
          [] k = "type"       -> "daq:math"
          [] k = "label"      -> "Gain"
          [] k = "position"   -> [x |-> 100, y |-> 50]
          [] k = "properties" -> {<<"scale", "2">>}]

\* a widget item that has its layout; binding is absent, null or given
WidgetItem(label, binding) ==
    IF binding = "absent" THEN [layout |-> TRUE, label |-> label]
    ELSE [layout |-> TRUE, label |-> label, binding |-> binding]

\* a document with the given keys beside those of base
WithSchemaVersion(base, version) ==
    [k \in DOMAIN base \cup {"schemaVersion"} |->
        IF k = "schemaVersion" THEN version ELSE base[k]]

\* documents with all four sections that differ in meta.schemaVersion
\* (absent, the supported one, another one) and in the optional keys of
\* their nodes and widgets
MetaDocuments ==
    LET bases == [sections : {Range(required_fields)},
                  devices  : {<<>>},
                  nodes    : SeqsUpTo({NodeItem(id, keys) :
                                          id \in DocNodeIds,
                                          keys \in SUBSET {"label", "position",
                                                           "properties"}},
                                      MaxDocNodes),
                  wires    : {<<>>},
                  widgets  : SeqsUpTo({WidgetItem(l, b) :
                                          l \in BOOLEAN,
                                          b \in {"absent", "null", "given"}},
                                      MaxDocItems)]
    IN bases \cup {WithSchemaVersion(b, v) : b \in bases, v \in {"0.1.0", "2.0.0"}}

\* a check of the required fields that stops at the first absent one
MissingFieldsFirstOnly(d) ==
    LET all == SelectSeq(required_fields, LAMBDA f : f \notin d.sections)
    IN IF all = <<>> THEN <<>> ELSE <<Head(all)>>

\* the loop over required_fields: the fields the document lacks, in order
MissingFields(d) ==
    SelectSeq(required_fields, LAMBDA f : f \notin d.sections)

\* the key of the first KeyError raised by _parse_devices (item["protocol"])
\* or _parse_ui (item["layout"]; label is read with get), "" when none is
ParseRaises(d) ==
    IF \E i \in DOMAIN d.devices : ~d.devices[i].protocol THEN "protocol"
    ELSE IF \E i \in DOMAIN d.widgets : ~d.widgets[i].layout THEN "layout"
    ELSE ""

NoProject == [nodes |-> <<>>, wires |-> <<>>]

SUPPORTED_SCHEMA_VERSIONS == {"0.1.0"}

\* a parser that accepts every schema version silently
SchemaWarningsNone(d) == <<>>

\* _parse_meta and the schema test: schemaVersion defaults to "0.1.0"; a
\* version that is not supported adds one warning
SchemaWarnings(d) ==
    IF DictGet(d, "schemaVersion", "0.1.0") \notin SUPPORTED_SCHEMA_VERSIONS
    THEN <<[kind |-> "schema_version",
            version |-> DictGet(d, "schemaVersion", "0.1.0")]>>
    ELSE <<>>

\* the Node built by _parse_logic from one item
ParseNode(item) ==
    [id         |-> item.id,
     type       |-> item.type,
     position   |-> DictGet(item, "position", [x |-> 0, y |-> 0]),
     label      |-> DictGet(item, "label", ""),
     properties |-> DictGet(item, "properties", {})]

\* the Widget built by _parse_ui from one item (item.label tells whether
\* the item has a label): binding is a PortRef only for a binding that is
\* present and not empty
ParseWidget(item) ==
    [label   |-> IF item.label THEN "Label" ELSE "",
     binding |-> IF "binding" \in DOMAIN item /\ item.binding # "null"
                 THEN "PortRef" ELSE "None"]

\* parse_dict: whether a DAQProject is returned, the project (the wires
\* are taken over as they are), get_errors() and get_warnings()
parse_dict(d) ==
    LET missing == MissingFields(d)
    IN IF missing # <<>>
       THEN [returned |-> FALSE, project |-> NoProject,
             errors |-> [k \in DOMAIN missing |->
                            [kind |-> "missing_field", field |-> missing[k]]],
             warnings |-> <<>>]
       ELSE IF ParseRaises(d) # ""
       THEN [returned |-> FALSE, project |-> NoProject,
             errors |-> <<[kind |-> "parse_failed", field |-> ParseRaises(d)]>>,
             warnings |-> SchemaWarnings(d)]
       ELSE [returned |-> TRUE,
             project |-> [schema_version |-> DictGet(d, "schemaVersion", "0.1.0"),
                          nodes   |-> [i \in DOMAIN d.nodes |-> ParseNode(d.nodes[i])],
                          wires   |-> d.wires,
                          widgets |-> [i \in DOMAIN d.widgets |->
                                          ParseWidget(d.widgets[i])]],
             errors |-> <<>>,
             warnings |-> SchemaWarnings(d)]

NoCode == [imports |-> {}, components |-> <<>>, connections |-> <<>>,
           callbacks |-> <<>>]

\* compile_string on a document: parse, validate_connections, sort,
\* has_cycle, generate
compile_string(d) ==
    LET p == parse_dict(d)
    IN IF ~p.returned
       THEN [ok |-> FALSE, stage |-> "parse", code |-> NoCode]
       ELSE LET stage == CompileStages(NodeIdsOf(p.project.nodes), p.project.wires)
            IN IF stage = "generate"
               THEN [ok |-> TRUE, stage |-> stage,
                     code |-> Generate(p.project.nodes, p.project.wires)]
               ELSE [ok |-> FALSE, stage |-> stage, code |-> NoCode]

InitParse ==
    /\ nodes = <<>>
    /\ wires = <<>>
    /\ topo = TopoInit
    /\ ret = NoRet
    /\ doc \in Documents \cup MetaDocuments
    /\ node_attrs = <<>>
    /\ generator = NoGenerator
    /\ ObjectsInit
    /\ EngineInit

\* DAQProjectParser.parse_dict(doc)
ParseDict ==
    /\ LET p == parse_dict(doc)
       IN ret' = [op |-> "parse_dict", returned |-> p.returned,
                  project |-> p.project, errors |-> p.errors,
                  warnings |-> p.warnings]
    /\ UNCHANGED <<nodes, wires, topo, doc, node_attrs, generator>>
    /\ UNCHANGED evars
    /\ UNCHANGED gvars
    /\ UNCHANGED ovars

\* DAQCompiler.compile_string(json.dumps(doc))
CompileDocument ==
    /\ LET c == compile_string(doc)
       IN ret' = [op |-> "compile_string", ok |-> c.ok, stage |-> c.stage,
                  code |-> c.code]
    /\ UNCHANGED <<nodes, wires, topo, doc, node_attrs, generator>>
    /\ UNCHANGED evars
    /\ UNCHANGED gvars
    /\ UNCHANGED ovars

NextParse == ParseDict \/ CompileDocument

SpecParse == InitParse /\ [][NextParse]_vars

\* ------------------------------------------- several calls on one parser
\* One DAQProjectParser is handed documents, strings and files one after
\* the other; `parser` holds its _errors and _warnings.  ret.errors and
\* ret.warnings are the diagnostics the call itself produced.
MaxDiagnostics == 5

\* the documents handed over: any of the four sections may be absent, the
\* ui section may hold a widget without layout, and a complete document
\* may name a schema version that is not supported
ParserDocs ==
    LET plain == {d \in [sections : SUBSET Range(required_fields),
                         devices  : {<<>>},
                         nodes    : {<<>>},
                         wires    : {<<>>},
                         widgets  : {<<>>, <<[layout |-> FALSE,
                                              label |-> TRUE]>>}] :
                     "ui" \notin d.sections => d.widgets = <<>>}
    IN plain \cup {WithSchemaVersion(d, "2.0.0") :
                      d \in {e \in plain : e.sections = Range(required_fields)}}

\* what a file path leads to
ParserFiles == {"missing", "not_json", "unreadable", "project"}

\* the entries parse_string and parse_file append themselves
JsonError == [kind |-> "json_failed", field |-> ""]
FileMissingError == [kind |-> "file_missing", field |-> ""]
FileReadError == [kind |-> "read_failed", field |-> ""]

\* self._errors.append(error)
AppendError(p, error) == [p EXCEPT !.errors = Append(@, error)]

\* parse_dict on this parser: both lists are cleared, then filled
ParserParseDictOf(d, op) ==
    LET p == parse_dict(d)
    IN /\ parser' = [errors |-> p.errors, warnings |-> p.warnings]
       /\ ret' = [op |-> op, returned |-> p.returned,
                  errors |-> p.errors, warnings |-> p.warnings]
       /\ doc' = d

\* a call that fails before it reaches parse_dict: one entry is appended
ParserFailsWith(error, op) ==
    /\ Len(parser.errors) < MaxDiagnostics
    /\ parser' = AppendError(parser, error)
    /\ ret' = [op |-> op, returned |-> FALSE,
               errors |-> <<error>>, warnings |-> <<>>]
    /\ UNCHANGED doc

\* what the actions of this section leave alone
ParserFrame ==
    /\ UNCHANGED <<nodes, wires, topo, node_attrs, generator>>
    /\ UNCHANGED <<replaced, callers, loops, loop_handle, counter, scheduler>>
    /\ UNCHANGED evars
    /\ UNCHANGED gvars

\* DAQProjectParser.parse_dict(data)
ParserParseDict ==
    /\ \E d \in ParserDocs : ParserParseDictOf(d, "parse_dict")
    /\ ParserFrame

\* DAQProjectParser.parse_string(json_string): json.loads raises on a
\* string that is not JSON, else the document goes to parse_dict
ParserParseString ==
    /\ \E is_json \in BOOLEAN :
          IF is_json
          THEN \E d \in ParserDocs : ParserParseDictOf(d, "parse_string")
          ELSE ParserFailsWith(JsonError, "parse_string")
    /\ ParserFrame

\* DAQProjectParser.parse_file(file_path)
ParserParseFile ==
    /\ \E file \in ParserFiles :
          CASE file = "missing" -> ParserFailsWith(FileMissingError, "parse_file")
            [] file = "not_json" -> ParserFailsWith(JsonError, "parse_file")
            [] file = "unreadable" -> ParserFailsWith(FileReadError, "parse_file")
            [] file = "project" ->
                   \E d \in ParserDocs : ParserParseDictOf(d, "parse_file")
    /\ ParserFrame

InitParser ==
    /\ nodes = <<>>
    /\ wires = <<>>
    /\ topo = TopoInit
    /\ ret = NoRet
    /\ doc = NoDoc
    /\ node_attrs = <<>>
    /\ generator = NoGenerator
    /\ ObjectsInit
    /\ EngineInit

NextParser == ParserParseDict \/ ParserParseString \/ ParserParseFile

SpecParser == InitParser /\ [][NextParser]_vars

\* ------------------------------------------------- properties of the engine
\* the last API call was add_component with a name the registry lacks
UnknownTypeRequested(r) == r.op = "add_component" /\ r.type_name \notin Registry

\* C6: add_component with a type name that is not registered raises, and
\* the call leaves the component map and the connection list exactly as
\* they were (on a fresh engine the map stays empty).
C6_UnknownTypeLeavesEngineUnchanged ==
    [][UnknownTypeRequested(eret') =>
          /\ eret'.raised
          /\ components' = components
          /\ connections' = connections]_vars

\* an unregistered type was refused on an engine that already holds a
\* component and a connection
C6_Witness ==
    /\ UnknownTypeRequested(eret)
    /\ eret.raised
    /\ Len(components) >= 1
    /\ Len(connections) >= 1

\* both components of the connection exist, the source port is one of the
\* source's outputs and the target port one of the target's inputs
ConnectionResolves(conn) ==
    LET s == IndexOfId(components, conn.source_component_id)
        t == IndexOfId(components, conn.target_component_id)
    IN /\ s # 0
       /\ t # 0
       /\ conn.source_port \in DOMAIN components[s].out
       /\ conn.target_port \in DOMAIN components[t].inp

\* C7: connect fails and records nothing when a component is unknown or a
\* port is not declared on its side, so every Connection of the table
\* refers to existing components and declared ports.
C7_ConnectRejectsUnknownEndpoints ==
    /\ \A k \in DOMAIN connections : ConnectionResolves(connections[k])
    /\ (eret.op = "connect" /\ ~ConnectionResolves(eret.connection))
           => eret.raised

\* the step of the loop thread that runs the propagation phase
TransferStep == loopPc \in {"top", "wait"} /\ loopPc' = "process"

\* the output value a connection reads
SourceValue(conn) ==
    components[IndexOfId(components, conn.source_component_id)]
        .out[conn.source_port]

\* the connections that target input p of the i-th component
FeedersOf(i, p) ==
    {k \in DOMAIN connections :
        /\ ConnectionResolves(connections[k])
        /\ connections[k].target_component_id = components[i].id
        /\ connections[k].target_port = p}

\* among them, those whose source output holds a value
LiveFeedersOf(i, p) ==
    {k \in FeedersOf(i, p) : SourceValue(connections[k]) # None}

Latest(S) == CHOOSE k \in S : \A j \in S : j <= k

\* C8 as stated: when several connections target the same input, after the
\* propagation phase the input holds the current output value of the source
\* of the connection registered last among them.
C8_LastRegisteredWins ==
    [][TransferStep =>
          \A i \in DOMAIN components : \A p \in DOMAIN components[i].inp :
              Cardinality(FeedersOf(i, p)) >= 2 =>
                  components'[i].inp[p] =
                      SourceValue(connections[Latest(FeedersOf(i, p))])]_vars

\* C8: after the propagation phase an input holds the output value of the
\* source of the connection registered last among those that target it and
\* whose source output is not None; when there is none it keeps its value.
C8_LastRegisteredValueWins ==
    [][TransferStep =>
          \A i \in DOMAIN components : \A p \in DOMAIN components[i].inp :
              IF LiveFeedersOf(i, p) = {}
              THEN components'[i].inp[p] = components[i].inp[p]
              ELSE components'[i].inp[p] =
                       SourceValue(connections[Latest(LiveFeedersOf(i, p))])]_vars

\* the propagation phase has just run; two connections with different
\* values target one input, which holds the value of the later one
C8_Witness ==
    /\ loopPc = "process"
    /\ loopIdx = 1
    /\ \E i \in DOMAIN components : \E p \in DOMAIN components[i].inp :
          /\ Cardinality(LiveFeedersOf(i, p)) >= 2
          /\ components[i].inp[p] =
                 SourceValue(connections[Latest(LiveFeedersOf(i, p))])
          /\ \E k \in LiveFeedersOf(i, p) :
                 SourceValue(connections[k]) # components[i].inp[p]

\* the number of process() calls the current tick has made on an instance
CallsOf(instance_id) ==
    Cardinality({k \in DOMAIN tickCalls : tickCalls[k].id = instance_id})

\* C9: in every tick, after the propagation phase, process() is invoked
\* exactly once on each started component that does not run its own worker
\* (counters included).
C9_EveryPullComponentProcessedOnce ==
    loopPc = "wait" =>
        \A i \in DOMAIN components :
            (components[i].running /\ ~components[i].worker)
                => CallsOf(components[i].id) = 1

\* the component a process() call of the tick was made on
Callee(call) == components[IndexOfId(components, call.id)]

PullCallsInProgress ==
    {a \in active : ~components[IndexOfId(components, a.id)].worker
                    /\ components[IndexOfId(components, a.id)].name
                           \notin {"MQTTSubscriber", "MockDevice", "SerialPort"}}

\* C11: while the engine runs, at most one process() call of a pull
\* component is in progress, and every such call is made by the tick-loop
\* thread -- also in a generated program whose subscriber handler feeds a
\* pull component.
C11_PullProcessOnlyOnLoopThread ==
    /\ Cardinality(PullCallsInProgress) <= 1
    /\ \A a \in PullCallsInProgress : a.thread = LoopThread

\* the step in which start() runs on a stopped engine
StartStep == ~is_running /\ is_running'

\* C12: start() starts every component whose own start() does not raise,
\* whatever the other components do, starts the tick loop and leaves the
\* engine running.
C12_StartIsBestEffort ==
    [][StartStep =>
          /\ eret'.op = "start"
          /\ loopPc' = "top"
          /\ ~stop_event'
          /\ \A i \in DOMAIN components :
                components[i].id \notin eret'.raised => components'[i].running]_vars

\* the engine runs although the start() of its first component raised, and
\* a component after that one is running
C12_Witness ==
    /\ is_running
    /\ loopPc # "none"
    /\ eret.op = "start"
    /\ \E i, j \in DOMAIN components :
          /\ i < j
          /\ components[i].id \in eret.raised
          /\ ~components[i].running
          /\ components[j].running

\* a process() call of the current tick raised
RaisedInTick ==
    \E k \in DOMAIN tickCalls : ProcessRaises(Callee(tickCalls[k]))

\* C14: when the process() of one component raises during a tick, every
\* other started component that the tick loop processes still has its
\* process() invoked in that tick.
C14_RaisingProcessIsIsolated ==
    (loopPc = "wait" /\ RaisedInTick) =>
        \A i \in DOMAIN components :
            ShouldProcess(components[i]) => CallsOf(components[i].id) >= 1

\* ---- C13
\* stop() has returned and nothing was called since
StopReturned == mainPc = "idle" /\ eret.op = "stop"

\* C13: when stop() returns, the loop thread has terminated and the engine
\* is not running, also when the stop() of a component raised.
C13_StopLeavesNoLoopThread ==
    StopReturned => (loopPc = "none" /\ ~is_running)

\* ---- C15
\* destroy() has returned, normally or by an exception, and nothing was
\* called since
DestroyReturned == mainPc = "idle" /\ eret.op = "destroy"

\* C15: destroy() completes from any state, also when the stop() or the
\* destroy() of a component raises: afterwards the engine is not running and
\* the component table and the connection table are empty.
C15_DestroyAlwaysCompletes ==
    DestroyReturned =>
        /\ ~eret.failed
        /\ ~is_running
        /\ components = <<>>
        /\ connections = <<>>

\* ---- C16
\* the thread of the i-th component is alive
WorkerAlive(i) == i \in DOMAIN components /\ components[i].worker

\* the event of the i-th component has been set while its thread is alive
WorkerSignalled(i) == WorkerAlive(i) /\ components[i].stop_event

Required == Range(required_fields)

\* the errors that report that field f is missing
MissingErrors(f) ==
    {k \in DOMAIN ret.errors :
        ret.errors[k].kind = "missing_field" /\ ret.errors[k].field = f}

\* C17: parse_dict on a document that lacks k > 0 of the four required
\* sections returns no project and leaves exactly k errors, one
\* missing-field error for each absent section.
C17_AllMissingSectionsReported ==
    (ret.op = "parse_dict" /\ doc.sections # Required) =>
        /\ ~ret.returned
        /\ Len(ret.errors) = Cardinality(Required \ doc.sections)
        /\ \A f \in Required \ doc.sections : Cardinality(MissingErrors(f)) = 1

C17_Witness ==
    /\ ret.op = "parse_dict"
    /\ doc.sections = {"devices"}
    /\ ~ret.returned
    /\ Len(ret.errors) = 3

\* ---- C18
\* every wire of the list joins two different nodes of the node list
Resolves(ns, ws) ==
    \A k \in DOMAIN ws :
        /\ \E i \in DOMAIN ns : ns[i].id = ws[k].source
        /\ \E i \in DOMAIN ns : ns[i].id = ws[k].target
        /\ ws[k].source # ws[k].target

\* C18: in every project the parser returns each wire names two nodes of
\* the project and is no self-loop; a document with a wire that does not is
\* rejected.
C18_ParserEnforcesWireInvariants ==
    ret.op = "parse_dict" =>
        /\ ret.returned => Resolves(ret.project.nodes, ret.project.wires)
        /\ ~Resolves(doc.nodes, doc.wires) => ~ret.returned

\* ---- C19
DocEdges == {<<w.source, w.target>> : w \in Range(doc.wires)}

DocHasCycle == \E e \in DocEdges : e[1] \in ReachableFrom(DocEdges, {e[2]})

\* C19: compile_string succeeds and returns the generated program (whose
\* fixed header, imports and main() make it non-empty) for every document
\* that has the four sections and whose wires join existing distinct nodes
\* without a cycle, whatever fields its devices and widgets lack.
C19_CompileAcceptsWellWiredDocuments ==
    (/\ ret.op = "compile_string"
     /\ doc.sections = Required
     /\ Resolves(doc.nodes, doc.wires)
     /\ ~DocHasCycle) =>
        (ret.ok /\ ret.stage = "generate")

\* ---- C20
Unknown(type) == NODE_TYPE_MAPPING(type) = "Unknown"

\* the document with every node of unknown type turned into a math node
Retyped(d) ==
    [d EXCEPT !.nodes = [i \in DOMAIN d.nodes |->
        IF Unknown(d.nodes[i].type)
        THEN [d.nodes[i] EXCEPT !.type = "daq:math"] ELSE d.nodes[i]]]

\* the statements generated for the node id
StatementsOf(id) ==
    {k \in DOMAIN ret.code.components : ret.code.components[k].id = id}

\* C20: a node of unknown type does not make the compile fail; in the
\* generated program it has a warning comment that names its type, no
\* add_component statement and no import, while every node of known type has
\* its add_component statement and its import.
C20_UnknownNodeTypeIsSkipped ==
    ret.op = "compile_string" =>
        /\ compile_string(Retyped(doc)).ok => ret.ok
        /\ ret.ok =>
              /\ "Unknown" \notin ret.code.imports
              /\ \A i \in DOMAIN doc.nodes :
                    LET node == doc.nodes[i]
                    IN /\ Cardinality(StatementsOf(node.id)) = 1
                       /\ \A k \in StatementsOf(node.id) :
                             IF Unknown(node.type)
                             THEN /\ ret.code.components[k].stmt = "warning"
                                  /\ ret.code.components[k].type = node.type
                             ELSE /\ ret.code.components[k].stmt = "add_component"
                                  /\ ret.code.components[k].type =
                                         NODE_TYPE_MAPPING(node.type)
                                  /\ NODE_TYPE_MAPPING(node.type) \in ret.code.imports
              /\ \A c \in ret.code.imports :
                    \E i \in DOMAIN doc.nodes :
                        NODE_TYPE_MAPPING(doc.nodes[i].type) = c

C20_Witness ==
    /\ ret.op = "compile_string" /\ ret.ok
    /\ doc.wires # <<>>
    /\ \E i, j \in DOMAIN doc.nodes :
          /\ Unknown(doc.nodes[i].type)
          /\ ~Unknown(doc.nodes[j].type)
          /\ \E k \in DOMAIN ret.code.components :
                /\ ret.code.components[k].stmt = "warning"
                /\ ret.code.components[k].id = doc.nodes[i].id

\* ---- C23
\* C23: for a project whose wires resolve, has_cycle() after sort() is true
\* exactly when the wire graph has a directed cycle, also when two nodes
\* carry the same id.
C23_CycleReportedIffCycle ==
    (SortReturned /\ nodes # <<>> /\ WiresResolve) =>
        (topo.has_cycle <=> HasDirectedCycle)

\* ---- C24
\* the ids that lie on a directed cycle of the wire graph
OnCycle ==
    {n \in NodeIdSet :
        \E e \in Edges : e[1] = n /\ n \in ReachableFrom(Edges, {e[2]})}

CycleDetected == SortReturned /\ nodes # <<>> /\ topo.has_cycle

\* C24: when sort() has detected a cycle, get_cycle_nodes() lists, once
\* each, the ids that were not emitted (those whose in-degree is still
\* positive); every id on a directed cycle is among them and no emitted id
\* is.
C24_CycleNodesAreTheUnemitted ==
    CycleDetected =>
        /\ Range(topo.cycle_nodes) = NodeIdSet \ Range(ret.ids)
        /\ Cardinality(Range(topo.cycle_nodes)) = Len(topo.cycle_nodes)
        /\ OnCycle \subseteq Range(topo.cycle_nodes)
        /\ Range(topo.cycle_nodes) \cap Range(ret.ids) = {}

\* wires X -> Y, Y -> X beside a node that is emitted
C24_Witness ==
    /\ CycleDetected
    /\ Len(nodes) = 3
    /\ \E x, y \in NodeIdSet :
          /\ x # y
          /\ wires = <<Wire(x, y), Wire(y, x)>>
          /\ Range(topo.cycle_nodes) = {x, y}
    /\ Len(ret.ids) = 1

\* ---- C27
\* the levels (from 0) in which the node with index i is listed
LevelsOf(i) ==
    {l \in 0..(Len(ret.levels) - 1) : InSeq(i, ret.levels[l + 1])}

LevelOf(i) == CHOOSE l \in LevelsOf(i) : TRUE

\* the nodes that are the source of a wire into the node with index i
Preds(i) ==
    {j \in DOMAIN nodes :
        \E k \in DOMAIN wires :
            wires[k].source = nodes[j] /\ wires[k].target = nodes[i]}

LevelsReturned == ret.op = "get_execution_levels" /\ ~ret.raised

\* C27: on an acyclic project with valid wires get_execution_levels() lists
\* every node in exactly one level, a node without incoming wire in level 0
\* and any other node one level above the highest of its predecessors, and
\* its loop ends because a pass changed nothing; on every project the loop
\* makes at most len(nodes) + 1 passes.
C27_LevelsAreLongestPaths ==
    /\ (LevelsReturned /\ nodes # <<>> /\ WiresResolve /\ ~HasDirectedCycle) =>
          /\ ~ret.changed
          /\ \A i \in DOMAIN nodes :
                /\ Cardinality(LevelsOf(i)) = 1
                /\ Cardinality({k \in DOMAIN ret.levels[LevelOf(i) + 1] :
                                   ret.levels[LevelOf(i) + 1][k] = i}) = 1
                /\ Preds(i) = {} => LevelOf(i) = 0
                /\ Preds(i) # {} =>
                      /\ \E j \in Preds(i) : LevelOf(i) = LevelOf(j) + 1
                      /\ \A j \in Preds(i) : LevelOf(i) >= LevelOf(j) + 1
    /\ ret.op = "get_execution_levels" => ret.iterations <= Len(nodes) + 1

\* a chain whose wires are listed against the flow: two passes change a
\* level, the third finds the fixed point
C27_Witness ==
    /\ LevelsReturned
    /\ WiresResolve /\ ~HasDirectedCycle
    /\ Len(nodes) = 3
    /\ Len(ret.levels) = 3
    /\ ret.iterations = 3
    /\ ~ret.changed

\* ---- C25
UnsupportedSchema ==
    /\ "schemaVersion" \in DOMAIN doc
    /\ doc.schemaVersion \notin SUPPORTED_SCHEMA_VERSIONS

\* what parse_dict returns for the document with a supported schemaVersion
SupportedTwin == parse_dict(WithSchemaVersion(doc, "0.1.0"))

\* C25: a document whose schemaVersion is not supported, and that parses
\* with a supported one, still yields a project, with exactly one warning
\* and no error; the project differs from that of the supported document in
\* schema_version only, and an omitted node label, properties or position
\* and an omitted widget binding are "", {}, (0, 0) and None.
C25_SchemaMismatchOnlyWarns ==
    (ret.op = "parse_dict" /\ UnsupportedSchema /\ SupportedTwin.returned) =>
        /\ ret.returned
        /\ Len(ret.warnings) = 1
        /\ ret.errors = <<>>
        /\ ret.project.schema_version = doc.schemaVersion
        /\ [ret.project EXCEPT !.schema_version = "0.1.0"] = SupportedTwin.project
        /\ \A i \in DOMAIN doc.nodes :
              /\ "label" \notin DOMAIN doc.nodes[i] => ret.project.nodes[i].label = ""
              /\ "properties" \notin DOMAIN doc.nodes[i] =>
                    ret.project.nodes[i].properties = {}
              /\ "position" \notin DOMAIN doc.nodes[i] =>
                    ret.project.nodes[i].position = [x |-> 0, y |-> 0]
        /\ \A i \in DOMAIN doc.widgets :
              "binding" \notin DOMAIN doc.widgets[i] =>
                  ret.project.widgets[i].binding = "None"

C25_Witness ==
    /\ ret.op = "parse_dict" /\ UnsupportedSchema
    /\ ret.returned /\ Len(ret.warnings) = 1
    /\ Len(doc.nodes) = 2
    /\ DOMAIN doc.nodes[1] = {"id", "type"}
    /\ "label" \in DOMAIN doc.nodes[2]
    /\ ret.project.nodes[2].label = "Gain"
    /\ doc.widgets # <<>> /\ "binding" \notin DOMAIN doc.widgets[1]
\* ------------------------------------------- properties of the generator
\* a generate() call has returned
GenerateReturned == ret.op = "generate"

\* the positions of the lines that carry the generation time
TimestampLines(lines) == {k \in DOMAIN lines : lines[k].stmt = "timestamp"}

\* two texts are the same line for line apart from one timestamp line
SameApartFromTimestamp(a, b) ==
    /\ Len(a) = Len(b)
    /\ Cardinality(TimestampLines(a)) = 1
    /\ TimestampLines(a) = TimestampLines(b)
    /\ \A k \in DOMAIN a : a[k] # b[k] => k \in TimestampLines(a)

\* C21: two generate() calls in a row, on one generator or on two generators
\* built from the same project and the same sorted node list, return texts
\* that are the same line for line apart from the one line of the header
\* that carries the generation time.
C21_GenerateIsRepeatable ==
    (GenerateReturned /\ ret.before # <<>>
        /\ ret.before[1].sorted_nodes = ret.sorted_nodes)
    => SameApartFromTimestamp(ret.before[1].lines, ret.lines)

\* a second generate() on the same generator, at another instant, for a
\* project that has a component and a wire
C21_Witness ==
    /\ GenerateReturned
    /\ ret.before # <<>>
    /\ ret.before[1].sorted_nodes = ret.sorted_nodes
    /\ ret.before[1].lines # ret.lines
    /\ \E k \in DOMAIN ret.lines : ret.lines[k].stmt = "add_component"
    /\ \E k \in DOMAIN ret.lines : ret.lines[k].stmt = "connect"

\* C22: generate() refuses a node list that comes from a cyclic project: when
\* has_cycle() is true after sort() and the generator was built with the list
\* that sort() returned, generate() fails and emits no program.
C22_GenerateRefusesCyclicProject ==
    (GenerateReturned /\ topo.has_cycle /\ ret.sorted_nodes = topo.sorted_nodes)
    => (ret.raised /\ ret.lines = <<>>)

\* the configs of the add_component statements of the returned text differ
\* from the properties of their nodes: a default was added or a key removed
ConfigDiffersFromProperties ==
    \E k \in DOMAIN ret.lines :
        /\ ret.lines[k].stmt = "add_component"
        /\ \E i \in DOMAIN nodes :
              /\ nodes[i] = ret.lines[k].id
              /\ ret.lines[k].config # node_attrs[i].properties

\* C26: validate_connections(), sort(), get_execution_levels(),
\* get_source_nodes(), get_sink_nodes() and generate() leave the project as
\* it was: the node list, the wire list and the properties bag of every node
\* are the same after the call as before it.
C26_ProjectIsReadOnly ==
    [][nodes' = nodes /\ wires' = wires /\ node_attrs' = node_attrs]_vars

\* generate() has returned a text whose configs hold defaults the nodes'
\* own bags do not hold, for a custom script among them
C26_Witness ==
    /\ GenerateReturned
    /\ ConfigDiffersFromProperties
    /\ \E k \in DOMAIN ret.lines :
          ret.lines[k].stmt = "add_component" /\ ret.lines[k].type = "CustomScript"

\* the add_component statements and the connect statements of a text, in
\* the order of the text
AddComponentLines(lines) == SelectSeq(lines, LAMBDA l : l.stmt = "add_component")

ConnectLines(lines) == SelectSeq(lines, LAMBDA l : l.stmt = "connect")

\* the nodes of known type of the node list of the generator, in its order
KnownSortedNodes ==
    SelectSeq(NodesAt(nodes, node_attrs, ret.sorted_nodes),
              LAMBDA n : NODE_TYPE_MAPPING(n.type) # "Unknown")

\* C28: the generated program has one add_component statement per node of
\* known type of the sorted node list, in the order of that list, then one
\* connect statement per wire of the project, in the order of the wires,
\* with the wire's source node, source port, target node and target port;
\* every add_component statement comes before every connect statement.
C28_ComponentsThenConnections ==
    GenerateReturned =>
        LET adds == AddComponentLines(ret.lines)
            conns == ConnectLines(ret.lines)
        IN /\ Len(adds) = Len(KnownSortedNodes)
           /\ \A k \in DOMAIN adds :
                 /\ adds[k].id = KnownSortedNodes[k].id
                 /\ adds[k].type = NODE_TYPE_MAPPING(KnownSortedNodes[k].type)
           /\ Len(conns) = Len(wires)
           /\ \A k \in DOMAIN conns :
                 conns[k].connection =
                     [source_component_id |-> wires[k].source,
                      source_port |-> wires[k].source_port,
                      target_component_id |-> wires[k].target,
                      target_port |-> wires[k].target_port]
           /\ \A i, j \in DOMAIN ret.lines :
                 (ret.lines[i].stmt = "add_component" /\ ret.lines[j].stmt = "connect")
                 => i < j

\* a text for two nodes that sort() put in the other order than the project
\* lists them, one of them of unknown type, and two different wires
C28_Witness ==
    /\ GenerateReturned
    /\ ret.sorted_nodes = <<2, 1>>
    /\ Len(AddComponentLines(ret.lines)) = 1
    /\ Len(wires) = 2
    /\ wires[1] # wires[2]

\* the node types that push their data: the MQTT subscriber and the mock
\* device
PushSourceTypes == {"daq:mqtt_subscribe", "daq:mock_device"}

\* the wires that leave a node, in the order of the project
OutgoingWires(id) == SelectSeq(wires, LAMBDA w : w.source = id)

\* the handlers registered on a node by the returned text
HandlersOn(id) ==
    SelectSeq(ret.lines, LAMBDA l : l.stmt = "handler" /\ l.source = id)

\* C29: the generated program registers one handler on every push source
\* (MQTT subscriber, mock device) of the node list that has an outgoing
\* wire; for each outgoing wire, in order, the handler writes the value into
\* the wire's target input port and calls the target's process().  A node
\* that is no push source or has no outgoing wire gets no handler.
C29_HandlerPerPushSource ==
    GenerateReturned =>
        \A n \in Range(NodesAt(nodes, node_attrs, ret.sorted_nodes)) :
            LET out == OutgoingWires(n.id)
            IN IF n.type \in PushSourceTypes /\ out # <<>>
               THEN /\ Len(HandlersOn(n.id)) = 1
                    /\ HandlersOn(n.id)[1].targets =
                           [k \in DOMAIN out |->
                               [id |-> out[k].target, port |-> out[k].target_port]]
               ELSE HandlersOn(n.id) = <<>>

\* the keys of a properties bag or of a config
KeysOf(props) == {p[1] : p \in props}

\* the keys whose default a node type always ends up with
DefaultedKeys(type) ==
    CASE type \in {"daq:mqtt_subscribe", "daq:mqtt_publish", "daq:mock_device"} ->
             {"broker_host", "broker_port", "topic"}
      [] type \in {"daq:csv_write", "daq:csv_storage"} -> {"file_path"}
      [] type = "daq:custom_script" -> {"generatedCode"}
      [] OTHER -> {}

\* the keys the generator strips from the config of a node type
StrippedKeys(type) == IF type = "daq:custom_script" THEN {"blocklyXml"} ELSE {}

\* C30: the config emitted for a node keeps every property of the node with
\* its value and adds a default only for a key the node does not define
\* (broker_host, broker_port and topic for MQTT and mock-device nodes,
\* file_path for CSV nodes); for a custom script generatedCode is kept as it
\* is and only blocklyXml is removed.
C30_ConfigKeepsUserProperties ==
    GenerateReturned =>
        LET adds == AddComponentLines(ret.lines)
        IN \A k \in DOMAIN adds :
               k \in DOMAIN KnownSortedNodes =>
               LET node == KnownSortedNodes[k]
                   config == adds[k].config
               IN /\ \A p \in node.properties :
                        p \in config \/ p[1] \in StrippedKeys(node.type)
                  /\ \A p \in config \ node.properties :
                        p[1] \notin KeysOf(node.properties)
                  /\ \A p, q \in config : p[1] = q[1] => p = q
                  /\ DefaultedKeys(node.type) \subseteq KeysOf(config)
                  /\ KeysOf(config) \cap StrippedKeys(node.type) = {}

\* a text with the config of a custom script that had blocklyXml and the
\* config of a mock device whose broker_port the user set
C30_Witness ==
    /\ GenerateReturned
    /\ \E k \in DOMAIN ret.lines :
          /\ ret.lines[k].stmt = "add_component"
          /\ ret.lines[k].type = "CustomScript"
          /\ <<"generatedCode", "output = input1 * 2">> \in ret.lines[k].config
    /\ \E k \in DOMAIN ret.lines :
          /\ ret.lines[k].stmt = "add_component"
          /\ ret.lines[k].type = "MockDevice"
          /\ <<"broker_port", "1884">> \in ret.lines[k].config
          /\ <<"topic", "sensors/mock">> \in ret.lines[k].config

\* ------------------------------------------------ wires between one pair
\* the wires without the one at position k
WithoutWire(ws, k) == [i \in 1..(Len(ws) - 1) |-> IF i < k THEN ws[i] ELSE ws[i + 1]]

\* another wire of the project joins the same ordered pair of nodes
HasTwin(ws, k) ==
    \E j \in DOMAIN ws \ {k} :
        ws[j].source = ws[k].source /\ ws[j].target = ws[k].target

\* the in-degree table sort() builds from the wires
InDegreeOf(ns, ws) ==
    BuildGraph(ws, [id \in NodeIds \cup ValNodeIds |-> <<>>],
               [id \in Range(DictKeys(ns)) |-> 0]).in_degree

\* C31: a further wire between an ordered pair of nodes that a wire joins
\* already, on whatever ports, changes nothing for sort(): the in-degrees,
\* the sorted ids, has_cycle() and get_cycle_nodes() are the same with the
\* wire as without it.
C31_DuplicateWireCountsOnce ==
    (ret.op = "sort" /\ ~ret.raised /\ nodes # <<>>) =>
        \A k \in DOMAIN wires :
            HasTwin(wires, k) =>
                LET without == SortRun(nodes, WithoutWire(wires, k))
                IN /\ ~without.raised
                   /\ InDegreeOf(nodes, WithoutWire(wires, k)) = InDegreeOf(nodes, wires)
                   /\ without.result = ret.ids
                   /\ without.has_cycle = topo.has_cycle
                   /\ without.cycle_nodes = topo.cycle_nodes

\* sort() has returned for a project with two wires from one node to
\* another that differ in their ports
C31_Witness ==
    /\ ret.op = "sort"
    /\ ~ret.raised
    /\ Len(wires) = 2
    /\ wires[1] # wires[2]
    /\ HasTwin(wires, 2)
    /\ wires[1].source # wires[1].target
    /\ Len(ret.ids) = 2

\* ------------------------------------------- the loop and the lifecycle
\* the step is a call of process() by the loop thread, on the component at
\* loopIdx
ProcessCalled == loopPc = "process" /\ Len(tickCalls') = Len(tickCalls) + 1

\* stop() of the i-th component has begun: the for loop of the engine's
\* stop() has reached it, or stop() / destroy() is past that loop
StopBegun(i) ==
    CASE mainPc = "stopping"   -> mainIdx > i
      [] mainPc = "comp_join"  -> mainIdx >= i
      [] mainPc = "destroying" -> TRUE
      [] OTHER                 -> ~is_running

\* C32: the loop calls process() only on a component that is Running: its
\* start() has completed and its stop() has not begun.
C32_ProcessOnlyWhileRunning ==
    [][ProcessCalled =>
          (components[loopIdx].running /\ ~StopBegun(loopIdx))]_vars

\* C33: whatever start() and stop() calls are made on an engine, from one
\* thread or from several, at most one loop thread of the engine is alive,
\* and a start() that finds the engine running starts no component and no
\* further loop.
C33_AtMostOneLoopThread ==
    /\ Cardinality(AliveLoops) <= 1
    /\ (eret.op = "start" /\ eret.was_running)
          => (eret.started = 0 /\ ~eret.created_loop)

\* ---------------------------------------------------------------------
\* C34: in the propagation phase a connection whose source output is None
\* writes nothing: an input that every connection targeting it reads from a
\* None output keeps its value, and an input that holds a value holds a
\* value afterwards, so propagation never resets an input to None.
C34_NoneIsNotPropagated ==
    [][TransferStep =>
          \A i \in DOMAIN components : \A p \in DOMAIN components[i].inp :
              /\ (\A k \in FeedersOf(i, p) :
                      SourceValue(connections[k]) = None)
                     => components'[i].inp[p] = components[i].inp[p]
              /\ components[i].inp[p] # None
                     => components'[i].inp[p] # None]_vars

\* the propagation phase has just run over a connection whose source
\* output is None, and the input it targets still holds a value
C34_Witness ==
    /\ loopPc = "process"
    /\ loopIdx = 1
    /\ \E i \in DOMAIN components : \E p \in DOMAIN components[i].inp :
          /\ components[i].inp[p] # None
          /\ \E k \in FeedersOf(i, p) : SourceValue(connections[k]) = None


\* ---------------------------------------------------------------------
\* the instances the engine has held: those in the dict and those an
\* add_component took out of it
HeldInstances ==
    {components[i] : i \in DOMAIN components}
        \cup {replaced[k] : k \in DOMAIN replaced}

\* C35 as stated: when engine.stop() or engine.destroy() has returned, stop()
\* has been called on every instance the engine started, so none of them
\* is running and none has a worker thread left, also when add_component
\* was called with an instance id that was taken.
C35_StopReachesEveryStartedInstance ==
    (eret.op \in {"stop", "destroy"} /\ ~is_running)
        => (\A c \in HeldInstances : ~c.running /\ ~c.worker)


\* ---------------------------------------------------------------------
\* a call of the parser has returned
ParserCallReturned == ret.op \in {"parse_dict", "parse_string", "parse_file"}

\* C36 as stated: after any sequence of parse_dict, parse_string and
\* parse_file calls on one parser, get_errors() and get_warnings() hold
\* the diagnostics of the most recent call and no others.
C36_DiagnosticsOfLastCallOnly ==
    ParserCallReturned =>
        (parser.errors = ret.errors /\ parser.warnings = ret.warnings)


\* ---------------------------------------------------------------------
\* C37 as stated: in every generated program each connect statement names
\* a source id and a target id for which an add_component statement was
\* emitted earlier in the text.
C37_ConnectNamesAddedComponents ==
    GenerateReturned =>
        \A j \in DOMAIN ret.lines :
            ret.lines[j].stmt = "connect" =>
                \A id \in {ret.lines[j].connection.source_component_id,
                            ret.lines[j].connection.target_component_id} :
                    \E i \in 1..(j - 1) :
                        /\ ret.lines[i].stmt = "add_component"
                        /\ ret.lines[i].id = id


\* ---------------------------------------------------------------------
\* process() of the counter has returned
CounterProcessReturned == ret.op = "process"

\* the value process() started from once reset and set_value were looked at
CountedFrom ==
    IF counter.inp["set_value"] # None THEN counter.inp["set_value"]
    ELSE IF Truthy(counter.inp["reset"]) THEN counter.initial_value
    ELSE ret.before.value

\* the signal is truthy at this call and was falsy at the call before
RoseAtThisCall(port, prev) == Truthy(counter.inp[port]) /\ ~prev

AtMost(v, limit) == IF limit # None /\ v > limit THEN limit ELSE v
AtLeast(v, limit) == IF limit # None /\ v < limit THEN limit ELSE v

\* C38: process() adds step (up to max_value) only at a call where
\* increment is truthy and was falsy at the process() call before, and
\* subtracts step (down to min_value) only at a call where decrement rose
\* in the same way; a call at which neither rose, such as one that finds
\* increment still held, leaves the value as it was; a counter with
\* initial_value 0 and step 1 that is started and then sees increment for
\* the first time outputs 1.
C38_StepOnlyOnRisingEdge ==
    CounterProcessReturned =>
        LET inc == RoseAtThisCall("increment", ret.before.prev_increment)
            dec == RoseAtThisCall("decrement", ret.before.prev_decrement)
        IN /\ (~inc /\ ~dec) => counter.value = CountedFrom
           /\ (inc /\ ~dec) =>
                 counter.value = AtMost(CountedFrom + counter.step, counter.max_value)
           /\ (dec /\ ~inc) =>
                 counter.value = AtLeast(CountedFrom - counter.step, counter.min_value)
           /\ (/\ inc /\ ~dec
               /\ ret.before.running
               /\ counter.initial_value = 0 /\ counter.step = 1
               /\ ret.before.value = 0
               /\ counter.inp["set_value"] = None)
                 => (counter.out.value = 1 /\ counter.value = 1)

\* a started counter with initial_value 0 and step 1 holds 1, and the
\* process() call that just returned found increment held and left the 1
C38_Witness ==
    /\ CounterProcessReturned
    /\ counter.running
    /\ counter.initial_value = 0 /\ counter.step = 1
    /\ Truthy(counter.inp["increment"]) /\ ret.before.prev_increment
    /\ ~Truthy(counter.inp["decrement"]) /\ ~Truthy(counter.inp["reset"])
    /\ counter.inp["set_value"] = None
    /\ ret.before.value = 1
    /\ counter.out.value = 1

\* C39 as stated: for a counter with min_value <= initial_value <=
\* max_value and step > 0, after start() and any process() calls with any
\* inputs the output value lies in [min_value, max_value], at_max is true
\* exactly when value >= max_value and at_min exactly when value <=
\* min_value.
C39_ValueStaysWithinLimits ==
    (/\ CounterProcessReturned
     /\ ret.before.running
     /\ counter.min_value # None /\ counter.max_value # None)
        => /\ counter.out.value >= counter.min_value
           /\ counter.out.value <= counter.max_value
           /\ counter.out.at_max = (counter.out.value >= counter.max_value)
           /\ counter.out.at_min = (counter.out.value <= counter.min_value)


\* ---------------------------------------------------------------------
\* a run of the task failed and a retry was granted
RetryPending(t) ==
    /\ t \in DOMAIN scheduler.tasks
    /\ scheduler.tasks[t].state = "pending"
    /\ scheduler.tasks[t].retry_count > 0

\* the scheduler loop is executing the task
TaskRunning(t) ==
    /\ t \in DOMAIN scheduler.tasks
    /\ scheduler.tasks[t].state = "running"

\* C40 as stated: in a running scheduler a task of a queued trigger type
\* whose action raised while retry_count < max_retries is eventually
\* executed again by the scheduler loop; retry_count never exceeds
\* max_retries.
C40_FailedTaskIsRetried ==
    /\ \A t \in SchedTaskIds : RetryPending(t) ~> TaskRunning(t)
    /\ [](\A t \in DOMAIN scheduler.tasks :
             scheduler.tasks[t].retry_count <= scheduler.tasks[t].max_retries)

====
